---- MODULE Spec2Model ----
(***************************************************************************)
(* Model of the generation-orchestration core of comfy-ui-telegram-bot:    *)
(*   - limiter.UserLimiter            (per-user admission gate)            *)
(*   - comfyui.ExecutionMonitor       (WaitForCompletion and its reader)   *)
(*   - telegram.Handler prompt paths  (handlePrompt / handleGroupPrompt)   *)
(*   - comfyui.Client.GenerateImage, comfyui.WorkflowManager               *)
(*   - telegram.Whitelist and the admin approval handlers                  *)
(* The specifications of the module:                                       *)
(*   SpecLimiter  - arbitrary sequences of calls on one UserLimiter        *)
(*   SpecMonitor  - one WaitForCompletion call with its reader goroutine   *)
(*   Spec         - concurrent update handlers sharing the limiter         *)
(*   SpecCancel   - Spec with request contexts that can be cancelled       *)
(*   SpecGenerate - one GenerateImage call and the handler's reaction      *)
(*   SpecWorkflow - Load, Reload and PrepareWorkflow on texts              *)
(*   SpecReload   - concurrent Load and PrepareWorkflow under the RWMutex  *)
(*   SpecAccess   - HandleUpdate's access control and the admin commands   *)
(*   SpecAdmin    - SpecAccess with the requests and buttons of groups     *)
(*   SpecLocked   - the limiter's methods step by step under its mutex     *)
(*   SpecClientID - the client IDs drawn by concurrent GenerateImage calls *)
(*   SpecSettings - concurrent settings toggles on one user's row          *)
(*   SpecShutdown - Bot.Run's select loop and its wait at shutdown         *)
(*   SpecJob      - one GenerateImage call, the backend's job and events   *)
(***************************************************************************)
EXTENDS Integers, Sequences, FiniteSets, TLC

\* ------------------------------------------------------------------ bounds
NumUsers == 3
MaxCap == 2
MaxFrames == 3
NumReqs == 2
NumActors == 2

Users == 1..NumUsers
Reqs == 1..NumReqs
Actors == 1..NumActors

VARIABLES
    limiter,    \* UserLimiter: [activeUsers, maxGlobal, globalCount]
    call,       \* SpecLimiter: the last call made, its result and the state before it
    mon,        \* SpecMonitor: the state of one WaitForCompletion call
    req,        \* Spec: one record per update-handling goroutine
    gen,        \* SpecGenerate: one GenerateImage call and its handler
    wm,         \* SpecWorkflow: the WorkflowManager and its template file
    ctx,        \* SpecCancel: per request, whether its context is done
    acl         \* SpecAccess: the whitelist, the admin store and the updates handled

vars == <<limiter, call, mon, req, gen, wm, ctx, acl>>

\* ================================================================ limiter
\* NewUserLimiter(maxGlobalConcurrent)
NewUserLimiter(maxGlobalConcurrent) ==
    [activeUsers |-> {}, maxGlobal |-> maxGlobalConcurrent, globalCount |-> 0]

\* A TryAcquire that forgets the per-user check.
TryAcquire_NoUserCheck(l, userID) ==
    IF l.maxGlobal > 0 /\ l.globalCount >= l.maxGlobal
    THEN [ret |-> FALSE, lim |-> l]
    ELSE [ret |-> TRUE,
          lim |-> [l EXCEPT !.activeUsers = @ \cup {userID},
                            !.globalCount = @ + 1]]

\* A TryAcquire whose global check is off by one (> instead of >=).
TryAcquire_CapOffByOne(l, userID) ==
    IF userID \in l.activeUsers
    THEN [ret |-> FALSE, lim |-> l]
    ELSE IF l.maxGlobal > 0 /\ l.globalCount > l.maxGlobal
    THEN [ret |-> FALSE, lim |-> l]
    ELSE [ret |-> TRUE,
          lim |-> [l EXCEPT !.activeUsers = @ \cup {userID},
                            !.globalCount = @ + 1]]

\* UserLimiter.TryAcquire: the returned boolean and the limiter afterwards.
TryAcquire(l, userID) ==
    IF userID \in l.activeUsers
    THEN [ret |-> FALSE, lim |-> l]
    ELSE IF l.maxGlobal > 0 /\ l.globalCount >= l.maxGlobal
    THEN [ret |-> FALSE, lim |-> l]
    ELSE [ret |-> TRUE,
          lim |-> [l EXCEPT !.activeUsers = @ \cup {userID},
                            !.globalCount = @ + 1]]

\* A Release that decrements without looking at the set.
Release_Unconditional(l, userID) ==
    [l EXCEPT !.activeUsers = @ \ {userID}, !.globalCount = @ - 1]

\* UserLimiter.Release: the limiter afterwards.
Release(l, userID) ==
    IF userID \in l.activeUsers
    THEN [l EXCEPT !.activeUsers = @ \ {userID}, !.globalCount = @ - 1]
    ELSE l

\* UserLimiter.ActiveCount
ActiveCount(l) == l.globalCount

\* UserLimiter.IsUserActive
IsUserActive(l, userID) == userID \in l.activeUsers

NoCall == [op |-> "none", user |-> 0, ret |-> 0, pre |-> NewUserLimiter(0)]

InitMonIdle == [mpc |-> "unused"]
InitGenIdle == [pc |-> "unused"]
InitWmIdle == [op |-> "unused"]
InitCtxIdle == [r \in Reqs |-> FALSE]
InitAclIdle == [op |-> "unused"]

\* An update-handling goroutine that Bot.Run has not started yet.
\*   pc        "idle", "acquire" (about to call TryAcquire), "rejected",
\*             "status" (sending "Generating your image..."), a stage of
\*             GenerateImage, "process", "deliver", "failed", "done"
\*   user      userID of the update's sender;  kind  "private" or "group"
\*   acq       result of this handler's TryAcquire: "no" (not called), "ok",
\*             "refused"
\*   deferred  defer h.limiter.Release(userID) has been registered
\*   ran       the stages of GenerateImage executed so far, in order
\*   exit      the step whose error ended the generation
\*   sent      the final message the handler sent
IdleReq == [pc |-> "idle", user |-> 0, kind |-> "none", acq |-> "no",
            deferred |-> FALSE, ran |-> <<>>, exit |-> "none", sent |-> "none"]
InitReqIdle == [r \in Reqs |-> IdleReq]

InitLimiter ==
    /\ \E m \in 0..MaxCap : limiter = NewUserLimiter(m)
    /\ call = NoCall
    /\ mon = InitMonIdle
    /\ req = InitReqIdle
    /\ gen = InitGenIdle
    /\ wm = InitWmIdle
    /\ ctx = InitCtxIdle
    /\ acl = InitAclIdle

CallTryAcquire(u) ==
    /\ limiter' = TryAcquire(limiter, u).lim
    /\ call' = [op |-> "TryAcquire", user |-> u,
                ret |-> TryAcquire(limiter, u).ret, pre |-> limiter]
    /\ UNCHANGED <<mon, req, gen, wm, ctx, acl>>

CallRelease(u) ==
    /\ limiter' = Release(limiter, u)
    /\ call' = [op |-> "Release", user |-> u, ret |-> 0, pre |-> limiter]
    /\ UNCHANGED <<mon, req, gen, wm, ctx, acl>>

CallActiveCount ==
    /\ call' = [op |-> "ActiveCount", user |-> 0,
                ret |-> ActiveCount(limiter), pre |-> limiter]
    /\ UNCHANGED <<limiter, mon, req, gen, wm, ctx, acl>>

CallIsUserActive(u) ==
    /\ call' = [op |-> "IsUserActive", user |-> u,
                ret |-> IsUserActive(limiter, u), pre |-> limiter]
    /\ UNCHANGED <<limiter, mon, req, gen, wm, ctx, acl>>

NextLimiter ==
    \/ \E u \in Users : CallTryAcquire(u)
    \/ \E u \in Users : CallRelease(u)
    \/ CallActiveCount
    \/ \E u \in Users : CallIsUserActive(u)

SpecLimiter == InitLimiter /\ [][NextLimiter]_vars

\* ================================================================ monitor
\* The job handle WaitForCompletion awaits, and the handle of an unrelated job
\* whose events travel on the same connection.
AwaitedID == "42"
OtherID == "7"

\* A nil *string (ExecutingData.Node after "node": null or no "node" key).
NilPtr == "<nil>"

\* Raw JSON of a frame's "data" field.  "obj" is a JSON object with the given
\* prompt_id and node members (node "absent": no such key; "null": JSON null;
\* any other value: that JSON string); "bad" is JSON that does not unmarshal
\* into the typed payload (a string, or prompt_id given as a number).
ObjData(pid, node) == [kind |-> "obj", prompt_id |-> pid, node |-> node]
BadData == [kind |-> "bad", prompt_id |-> "", node |-> "absent"]
NoData == [kind |-> "none", prompt_id |-> "", node |-> "absent"]
NodeValues == {"absent", "null", "", "9"}
RawData == {ObjData(p, n) : p \in {AwaitedID, OtherID}, n \in NodeValues}
              \cup {BadData}

\* What conn.ReadMessage can deliver: frames whose envelope unmarshals into
\* WSMessage (json = TRUE) and frames that do not (binary previews, garbage).
Frame(type, data) == [json |-> TRUE, type |-> type, data |-> data]
GarbageFrame == [json |-> FALSE, type |-> "", data |-> NoData]
NoFrame == [json |-> FALSE, type |-> "none", data |-> NoData]
Frames ==
    {Frame("executing", d) : d \in RawData}
        \cup {Frame("progress", d) :
                d \in {ObjData(AwaitedID, "absent"), ObjData(OtherID, "absent"), BadData}}
        \cup {Frame("execution_error", d) :
                d \in {ObjData(AwaitedID, "9"), ObjData(OtherID, "9"), BadData}}
        \cup {Frame("status", ObjData(OtherID, "absent"))}
        \cup {GarbageFrame}

\* Errors conn.ReadMessage can return: the read deadline passing, a close
\* frame with code 1000 from the peer, any other transport failure, and the
\* local conn.Close() of the deferred cleanup.
ReadErrors == {"i/o timeout", "close 1000", "unexpected EOF"}
ClosedConnErr == "use of closed network connection"

\* json.Unmarshal(msg.Data, &ExecutingData)
UnmarshalExecuting(raw) ==
    IF raw.kind # "obj"
    THEN [err |-> TRUE, PromptID |-> "", Node |-> NilPtr]
    ELSE [err |-> FALSE,
          PromptID |-> raw.prompt_id,
          Node |-> IF raw.node \in {"absent", "null"} THEN NilPtr ELSE raw.node]

\* json.Unmarshal(msg.Data, &ProgressData)
UnmarshalProgress(raw) ==
    IF raw.kind # "obj"
    THEN [err |-> TRUE, PromptID |-> ""]
    ELSE [err |-> FALSE, PromptID |-> raw.prompt_id]

\* A completion test that forgets to correlate on the prompt id.
IsCompletion_AnyPrompt(data, promptID) == data.Node = NilPtr

\* A completion test that looks for an empty node string instead of nil.
IsCompletion_EmptyNode(data, promptID) ==
    data.PromptID = promptID /\ data.Node = ""

\* data.PromptID == promptID && data.Node == nil
IsCompletion(data, promptID) ==
    data.PromptID = promptID /\ data.Node = NilPtr

\* fmt.Errorf("comfyui execution error: %s", string(msg.Data))
ExecutionErrorf(raw) == <<"comfyui execution error: ", raw>>

\* conn.SetReadDeadline(time.Now().Add(30 * time.Second)) and
\* time.NewTicker(10 * time.Second): the deadline passes IdleLimit ticker
\* periods after it was set.
ReadDeadlineSec == 30
PingPeriodSec == 10
IdleLimit == ReadDeadlineSec \div PingPeriodSec

\* A pong handler that forgets to move the read deadline.
PongHandler_NoReset(idle) == idle

\* conn.SetPongHandler(func(string) error { conn.SetReadDeadline(...) }):
\* the periods elapsed since the deadline was set, after a pong.
PongHandler(idle) == 0

\* A return that leaves the connection as it is.
DeferredClose_Leak(conn) == conn

\* defer conn.Close(), registered once the dial succeeded: the state of the
\* connection after WaitForCompletion returns.
DeferredClose(conn) == IF conn = "open" THEN "closed" ELSE conn

NoResult == [kind |-> "none", via |-> "none", err |-> <<>>]
Returned(kind, via, err) == [kind |-> kind, via |-> via, err |-> err]
Continue == [kind |-> "continue", via |-> "msgCh", err |-> <<>>]

\* An execution_error case that fails only for the awaited job.
HandleMessage_ErrorCorrelated(msg, promptID) ==
    IF msg.type = "executing"
    THEN LET data == UnmarshalExecuting(msg.data) IN
         IF data.err THEN Continue
         ELSE IF IsCompletion(data, promptID)
         THEN Returned("completed", "msgCh", <<>>)
         ELSE Continue
    ELSE IF msg.type = "execution_error"
    THEN IF msg.data.kind = "obj" /\ msg.data.prompt_id = promptID
         THEN Returned("execErr", "msgCh", ExecutionErrorf(msg.data))
         ELSE Continue
    ELSE Continue

\* The switch on msg.Type of the msgCh case: the call's result when the
\* message ends it, Continue when the loop goes on.
HandleMessage(msg, promptID) ==
    IF msg.type = "executing"
    THEN LET data == UnmarshalExecuting(msg.data) IN
         IF data.err THEN Continue
         ELSE IF IsCompletion(data, promptID)
         THEN Returned("completed", "msgCh", <<>>)
         ELSE Continue
    ELSE IF msg.type = "execution_error"
    THEN Returned("execErr", "msgCh", ExecutionErrorf(msg.data))
    ELSE Continue

\* A progress case that does not compare the prompt_id.
ForwardsProgress_Uncorrelated(msg, promptID, hasCb) ==
    /\ msg.type = "progress"
    /\ ~UnmarshalProgress(msg.data).err
    /\ hasCb

\* The progress case: whether progressCb is invoked for this message.
ForwardsProgress(msg, promptID, hasCb) ==
    /\ msg.type = "progress"
    /\ ~UnmarshalProgress(msg.data).err
    /\ UnmarshalProgress(msg.data).PromptID = promptID
    /\ hasCb

\* State of one WaitForCompletion call at entry.
\*   mpc        the calling goroutine: "dial", "select" (blocked in the select
\*              of the for loop) or "returned"
\*   rpc        the read goroutine: "none" (not started), "read" (in
\*              conn.ReadMessage), "sendMsg"/"sendErr" (blocked sending pend
\*              on msgCh/errCh), "exited"
\*   pend       the frame the reader is sending on msgCh
\*   perr       the error the reader is sending on errCh
\*   ctxDone    ctx.Done() is closed
\*   tick       pingTicker.C holds a tick
\*   conn       "none", "open" or "closed"
\*   closeSent  a close frame was written
\*   result     the value returned, with the select case that produced it
\*   nread      frames read so far
\*   last       the message most recently taken from msgCh
\*   cbCalls    number of progressCb invocations
\*   cancelledAt  where the caller was when ctx was cancelled
\*   idle       ticker periods elapsed since the read deadline was last set
\*   pong       "ping": a ping is on its way and not yet answered; "pong":
\*              the backend's pong waits to be read; "none" otherwise
\*   unanswered a ticker period went by with a ping still unanswered
\*   resetBy    what set the read deadline last: "dial", "msg" or "pong"
\*   stale      conn.ReadMessage returned a frame since the read deadline was
\*              last set
MonEntry(promptID, hasCb) ==
    [mpc |-> "dial", rpc |-> "none", pend |-> NoFrame, perr |-> "",
     ctxDone |-> FALSE, tick |-> FALSE, conn |-> "none", closeSent |-> FALSE,
     result |-> NoResult, promptID |-> promptID, hasCb |-> hasCb,
     nread |-> 0, last |-> NoFrame, cbCalls |-> 0,
     cancelledAt |-> "none",
     idle |-> 0, pong |-> "none", unanswered |-> FALSE, resetBy |-> "dial",
     stale |-> FALSE]

InitMonitor ==
    /\ limiter = NewUserLimiter(0)
    /\ call = NoCall
    /\ \E cb \in BOOLEAN : mon = MonEntry(AwaitedID, cb)
    /\ req = InitReqIdle
    /\ gen = InitGenIdle
    /\ wm = InitWmIdle
    /\ ctx = InitCtxIdle
    /\ acl = InitAclIdle

\* The caller's context is cancelled (or its deadline passes).
MonCancel ==
    /\ mon.mpc # "returned"
    /\ ~mon.ctxDone
    /\ mon' = [mon EXCEPT !.ctxDone = TRUE, !.cancelledAt = mon.mpc]
    /\ UNCHANGED <<limiter, call, req, gen, wm, ctx, acl>>

\* dialer.DialContext; on success the deadline and pong handler are set, the
\* ticker is created and the read goroutine is started.
MonDial ==
    /\ mon.mpc = "dial"
    /\ \/ /\ ~mon.ctxDone
          /\ mon' = [mon EXCEPT !.mpc = "select", !.conn = "open", !.rpc = "read"]
       \/ mon' = [mon EXCEPT !.mpc = "returned",
                             !.result = Returned("dialErr", "dial", <<"websocket dial: ">>)]
    /\ UNCHANGED <<limiter, call, req, gen, wm, ctx, acl>>

\* A ticker period passes and the ticker delivers a tick (its channel holds
\* at most one).  A read blocked in conn.ReadMessage returns first when the
\* deadline has passed or a pong is waiting.
MonTick ==
    /\ mon.mpc = "select"
    /\ ~mon.tick
    /\ ~(mon.rpc = "read" /\ (mon.idle >= IdleLimit \/ mon.pong = "pong"))
    /\ mon' = [mon EXCEPT !.tick = TRUE,
                          !.idle = IF @ < IdleLimit THEN @ + 1 ELSE @,
                          !.unanswered = @ \/ mon.pong = "ping"]
    /\ UNCHANGED <<limiter, call, req, gen, wm, ctx, acl>>

\* One conn.ReadMessage of the read goroutine, up to its channel send.
ReaderRead ==
    /\ mon.rpc = "read"
    /\ \/ /\ mon.conn = "open"
          /\ mon.idle < IdleLimit
          /\ mon.nread < MaxFrames
          /\ \E f \in Frames :
                mon' = [mon EXCEPT !.nread = @ + 1, !.stale = TRUE,
                                   !.rpc = IF f.json THEN "sendMsg" ELSE "read",
                                   !.pend = IF f.json THEN f ELSE NoFrame]
       \/ /\ mon.conn = "open"
          /\ mon.idle >= IdleLimit
          /\ mon' = [mon EXCEPT !.rpc = "sendErr", !.perr = "i/o timeout"]
       \/ /\ mon.conn = "open"
          /\ \E e \in ReadErrors \ {"i/o timeout"} :
                mon' = [mon EXCEPT !.rpc = "sendErr", !.perr = e]
       \/ /\ mon.conn = "closed"
          /\ mon' = [mon EXCEPT !.rpc = "sendErr", !.perr = ClosedConnErr]
    /\ UNCHANGED <<limiter, call, req, gen, wm, ctx, acl>>

\* The backend answers the ping that is on its way.
BackendPong ==
    /\ mon.conn = "open"
    /\ mon.pong = "ping"
    /\ mon' = [mon EXCEPT !.pong = "pong"]
    /\ UNCHANGED <<limiter, call, req, gen, wm, ctx, acl>>

\* conn.ReadMessage meets the pong, runs the pong handler and reads on.
ReaderPong ==
    /\ mon.rpc = "read"
    /\ mon.conn = "open"
    /\ mon.pong = "pong"
    /\ mon.idle < IdleLimit
    /\ mon' = [mon EXCEPT !.pong = "none", !.idle = PongHandler(@),
                          !.resetBy = "pong",
                          !.stale = IF PongHandler(mon.idle) = 0 THEN FALSE ELSE @]
    /\ UNCHANGED <<limiter, call, req, gen, wm, ctx, acl>>

\* case <-ctx.Done(): write a close frame, return ctx.Err(); the deferred
\* conn.Close() and pingTicker.Stop() run.
SelectCtxDone ==
    /\ mon.mpc = "select"
    /\ mon.ctxDone
    /\ mon' = [mon EXCEPT !.mpc = "returned", !.closeSent = TRUE,
                          !.conn = DeferredClose(@), !.tick = FALSE,
                          !.result = Returned("cancelled", "ctx", <<"ctx.Err()">>)]
    /\ UNCHANGED <<limiter, call, req, gen, wm, ctx, acl>>

\* case <-pingTicker.C: write a ping; a failed write ends the call.
SelectPing ==
    /\ mon.mpc = "select"
    /\ mon.tick
    /\ \/ mon' = [mon EXCEPT !.tick = FALSE,
                             !.pong = IF @ = "none" THEN "ping" ELSE @]
       \/ mon' = [mon EXCEPT !.mpc = "returned", !.conn = DeferredClose(@),
                             !.tick = FALSE,
                             !.result = Returned("pingErr", "ticker", <<"ping failed: ">>)]
    /\ UNCHANGED <<limiter, call, req, gen, wm, ctx, acl>>

\* case err := <-errCh: the reader's send completes and the reader exits.
SelectErr ==
    /\ mon.mpc = "select"
    /\ mon.rpc = "sendErr"
    /\ mon' = [mon EXCEPT
                !.mpc = "returned", !.conn = DeferredClose(@), !.tick = FALSE,
                !.rpc = "exited", !.perr = "",
                !.result = IF mon.perr = "close 1000"
                           THEN Returned("closedErr", "errCh",
                                         <<"websocket closed unexpectedly">>)
                           ELSE Returned("readErr", "errCh",
                                         <<"websocket read: ", mon.perr>>)]
    /\ UNCHANGED <<limiter, call, req, gen, wm, ctx, acl>>

\* case msg := <-msgCh: the reader's send completes and the reader reads on;
\* the read deadline is reset and the message is dispatched on its type.
SelectMsg ==
    /\ mon.mpc = "select"
    /\ mon.rpc = "sendMsg"
    /\ LET r == HandleMessage(mon.pend, mon.promptID) IN
       mon' = [mon EXCEPT
                !.rpc = "read", !.pend = NoFrame, !.last = mon.pend,
                !.idle = 0, !.resetBy = "msg", !.stale = FALSE,
                !.cbCalls = IF ForwardsProgress(mon.pend, mon.promptID, mon.hasCb)
                            THEN @ + 1 ELSE @,
                !.mpc = IF r = Continue THEN "select" ELSE "returned",
                !.conn = IF r = Continue THEN @ ELSE DeferredClose(@),
                !.tick = IF r = Continue THEN @ ELSE FALSE,
                !.result = IF r = Continue THEN @ ELSE r]
    /\ UNCHANGED <<limiter, call, req, gen, wm, ctx, acl>>

NextMonitor ==
    \/ MonCancel
    \/ MonDial
    \/ MonTick
    \/ ReaderRead
    \/ BackendPong
    \/ ReaderPong
    \/ SelectCtxDone
    \/ SelectPing
    \/ SelectErr
    \/ SelectMsg

SpecMonitor == InitMonitor /\ [][NextMonitor]_vars

\* =============================================================== handlers
\* The blocking steps of Client.GenerateImage, in program order.
Stages == <<"prepare", "queue", "wait", "history", "image">>
StageSet == {Stages[i] : i \in 1..Len(Stages)}
StageIndex(st) == CHOOSE i \in 1..Len(Stages) : Stages[i] = st
\* A GenerateImage that asks for the history right after queueing.
NextStage_SkipsWait(st) ==
    IF st = "queue" THEN "history"
    ELSE IF StageIndex(st) < Len(Stages) THEN Stages[StageIndex(st) + 1]
    ELSE "process"

\* The statement GenerateImage goes on to when step st returned no error.
NextStage(st) ==
    IF StageIndex(st) < Len(Stages) THEN Stages[StageIndex(st) + 1] ELSE "process"

\* The ways each step can end: nil, or one of the errors it returns.
StageOutcomes(st) ==
    IF st = "wait" THEN {"ok", "failed", "timeout", "cancelled"}
    ELSE IF st = "history" THEN {"ok", "error", "noEntry", "noOutput"}
    ELSE {"ok", "error"}

\* A handler that waits for the slot instead of rejecting.
AfterTryAcquire_Retry(acquired) == IF acquired THEN "status" ELSE "acquire"

\* if !h.limiter.TryAcquire(userID) { sendText(...); return }
AfterTryAcquire(acquired) == IF acquired THEN "status" ELSE "rejected"

\* A handler whose defer is placed before the TryAcquire test.
RegistersDefer_BeforeCheck(acquired) == TRUE

\* defer h.limiter.Release(userID) is reached only after a successful
\* TryAcquire.
RegistersDefer(acquired) == acquired

\* A handler that releases explicitly, and only at the end of the success
\* path.
RunDeferred_SuccessOnly(l, rq) ==
    IF rq.deferred /\ rq.pc = "deliver" THEN Release(l, rq.user) ELSE l

\* The handler returns: its deferred calls run.
RunDeferred(l, rq) ==
    IF rq.deferred THEN Release(l, rq.user) ELSE l

\* A finished handler: only what it sent and how its TryAcquire ended is kept.
DoneReq(rq, sent) ==
    [IdleReq EXCEPT !.pc = "done", !.acq = rq.acq, !.sent = sent]

Init ==
    /\ limiter = NewUserLimiter(0)
    /\ call = NoCall
    /\ mon = InitMonIdle
    /\ req = InitReqIdle
    /\ gen = InitGenIdle
    /\ wm = InitWmIdle
    /\ ctx = InitCtxIdle
    /\ acl = InitAclIdle

\* Bot.Run takes an update from the channel and starts a goroutine for it;
\* HandleUpdate routes a private text to handlePrompt and a group mention to
\* handleGroupPrompt, which trim the prompt and refuse one shorter than 3.
Dispatch(r) ==
    /\ req[r].pc = "idle"
    /\ \E u \in Actors, k \in {"private", "group"}, short \in BOOLEAN :
         req' = [req EXCEPT ![r] =
                    IF short
                    THEN DoneReq(req[r], "tooShort")
                    ELSE [req[r] EXCEPT !.pc = "acquire", !.user = u, !.kind = k]]
    /\ UNCHANGED <<limiter, call, mon, gen, wm, ctx, acl>>

\* h.limiter.TryAcquire(userID), the test of its result and the defer.
Acquire(r) ==
    /\ req[r].pc = "acquire"
    /\ LET t == TryAcquire(limiter, req[r].user) IN
         /\ limiter' = t.lim
         /\ req' = [req EXCEPT ![r] =
                      [req[r] EXCEPT !.pc = AfterTryAcquire(t.ret),
                                     !.acq = IF t.ret THEN "ok" ELSE "refused",
                                     !.deferred = RegistersDefer(t.ret)]]
    /\ UNCHANGED <<call, mon, gen, wm, ctx, acl>>

\* The rejected handler sends ErrGenerationInProgress.UserMsg and returns.
Reject(r) ==
    /\ req[r].pc = "rejected"
    /\ limiter' = RunDeferred(limiter, req[r])
    /\ req' = [req EXCEPT ![r] = DoneReq(req[r], "inProgress")]
    /\ UNCHANGED <<call, mon, gen, wm, ctx, acl>>

\* h.bot.Send("Generating your image..."); its error is only logged.
SendStatus(r) ==
    /\ req[r].pc = "status"
    /\ req' = [req EXCEPT ![r].pc = Stages[1]]
    /\ UNCHANGED <<limiter, call, mon, gen, wm, ctx, acl>>

\* One step of GenerateImage: PrepareWorkflow, QueuePrompt, WaitForCompletion,
\* GetHistory with the search for the first image, GetImage.  An error makes
\* GenerateImage return it.
StageStep(r) ==
    /\ req[r].pc \in StageSet
    /\ \E o \in StageOutcomes(req[r].pc) :
         req' = [req EXCEPT ![r] =
                    [req[r] EXCEPT !.ran = Append(@, req[r].pc),
                                   !.pc = IF o = "ok" THEN NextStage(req[r].pc)
                                          ELSE "failed",
                                   !.exit = IF o = "ok" THEN "none" ELSE req[r].pc]]
    /\ UNCHANGED <<limiter, call, mon, gen, wm, ctx, acl>>

\* h.processor.Process(imageData)
Process(r) ==
    /\ req[r].pc = "process"
    /\ \E ok \in BOOLEAN :
         req' = [req EXCEPT ![r] =
                    [req[r] EXCEPT !.pc = IF ok THEN "deliver" ELSE "failed",
                                   !.exit = IF ok THEN "none" ELSE "process"]]
    /\ UNCHANGED <<limiter, call, mon, gen, wm, ctx, acl>>

\* The error branches: the handler sends GetUserMessage(err) (or "Failed to
\* process the generated image."), deletes the status message and returns.
ReportFailure(r) ==
    /\ req[r].pc = "failed"
    /\ limiter' = RunDeferred(limiter, req[r])
    /\ req' = [req EXCEPT ![r] =
                 DoneReq(req[r], IF req[r].exit = "process" THEN "processError"
                                 ELSE "error")]
    /\ UNCHANGED <<call, mon, gen, wm, ctx, acl>>

\* The success path: the status message is deleted, the image is sent and
\* the handler returns.
Deliver(r) ==
    /\ req[r].pc = "deliver"
    /\ limiter' = RunDeferred(limiter, req[r])
    /\ req' = [req EXCEPT ![r] = DoneReq(req[r], "image")]
    /\ UNCHANGED <<call, mon, gen, wm, ctx, acl>>

Next ==
    \/ \E r \in Reqs : Dispatch(r)
    \/ \E r \in Reqs : Acquire(r)
    \/ \E r \in Reqs : Reject(r)
    \/ \E r \in Reqs : SendStatus(r)
    \/ \E r \in Reqs : StageStep(r)
    \/ \E r \in Reqs : Process(r)
    \/ \E r \in Reqs : ReportFailure(r)
    \/ \E r \in Reqs : Deliver(r)

Spec == Init /\ [][Next]_vars

\* ============================================================ cancellation
\* Bot.Run gives every update a context with the RequestTimeout deadline,
\* derived from the context that the shutdown signal cancels.  The stages of
\* GenerateImage that wait for the backend do so under that context:
\* QueuePrompt, GetHistory and GetImage build their request with
\* http.NewRequestWithContext, WaitForCompletion dials with DialContext and
\* has ctx.Done() among the cases of its select.
WatchesCtx_NotWait(st) == st \in {"queue", "history", "image"}
WatchesCtx(st) == st \in {"queue", "wait", "history", "image"}

\* The stages that wait for an answer of the backend, which may never come;
\* PrepareWorkflow works on memory only.
Blocks(st) == st \in {"queue", "wait", "history", "image"}

\* The deadline of the request's context expires, or the context of Bot.Run
\* is cancelled.  A goroutine that Bot.Run has started but that has not run
\* yet finds its context done from the first stage on.
CtxDone(r) ==
    /\ req[r].pc # "done"
    /\ ~ctx[r]
    /\ ctx' = [ctx EXCEPT ![r] = TRUE]
    /\ UNCHANGED <<limiter, call, mon, req, gen, wm, acl>>

\* A stage that watches the context returns the context's error once it is
\* done; GenerateImage wraps it and returns it to the handler.
StageUnwind(r) ==
    /\ req[r].pc \in StageSet
    /\ WatchesCtx(req[r].pc)
    /\ ctx[r]
    /\ req' = [req EXCEPT ![r] =
                 [req[r] EXCEPT !.ran = Append(@, req[r].pc),
                                !.pc = "failed",
                                !.exit = req[r].pc]]
    /\ UNCHANGED <<limiter, call, mon, gen, wm, ctx, acl>>

NextCancel ==
    \/ Next
    \/ \E r \in Reqs : CtxDone(r)
    \/ \E r \in Reqs : StageUnwind(r)

\* Every step of a handler that does not wait for the backend is taken in
\* the end, and so is the return of a stage whose context is done.  Nothing
\* is assumed about the stages that wait for the backend, about the arrival
\* of updates or about the cancellation itself.
FairCancel ==
    \A r \in Reqs :
        /\ WF_vars(Acquire(r))
        /\ WF_vars(Reject(r))
        /\ WF_vars(SendStatus(r))
        /\ WF_vars(~Blocks(req[r].pc) /\ StageStep(r))
        /\ WF_vars(Process(r))
        /\ WF_vars(ReportFailure(r))
        /\ WF_vars(Deliver(r))
        /\ WF_vars(StageUnwind(r))

SpecCancel == Init /\ [][NextCancel]_vars /\ FairCancel

\* ============================================================= generation
\* Error values are chains of layers, outermost first: fmt.Errorf("...: %w")
\* puts a layer in front of the chain it wraps, fmt.Errorf with %s or no verb
\* makes a chain of its own.  The apperrors.UserError values are layers too.
Nil == <<>>
Wrapf(layer, chain) == <<layer>> \o chain

\* The predefined *UserError values and their UserMsg.
UserErrors ==
    {"ErrComfyUIUnavailable", "ErrGenerationTimeout", "ErrInvalidWorkflow",
     "ErrPromptRejected", "ErrUnauthorized", "ErrGenerationInProgress"}
UserMsg(e) ==
    CASE e = "ErrComfyUIUnavailable" ->
            "The image generation service is currently unavailable. Please try again later."
      [] e = "ErrGenerationTimeout" ->
            "Image generation took too long and was cancelled. Try a simpler prompt."
      [] e = "ErrInvalidWorkflow" ->
            "There is a problem with the image generation configuration. Please contact the administrator."
      [] e = "ErrPromptRejected" ->
            "The prompt could not be processed. Please try rewording your request."
      [] e = "ErrUnauthorized" ->
            "Sorry, you are not authorized to use this bot."
      [] e = "ErrGenerationInProgress" ->
            "You already have a generation in progress. Please wait for it to complete."
DefaultMsg == "An unexpected error occurred. Please try again later."
NoMessage == "none"

\* errors.As(err, &userErr): the outermost UserError of the chain, if any.
ErrorsAs(chain) ==
    LET idx == {i \in 1..Len(chain) : chain[i] \in UserErrors} IN
    IF idx = {} THEN "none"
    ELSE chain[CHOOSE i \in idx : \A k \in idx : i <= k]

GetUserMessage(chain) ==
    IF ErrorsAs(chain) # "none" THEN UserMsg(ErrorsAs(chain)) ELSE DefaultMsg

\* ctx.Err() after cancellation, and what net/http wraps around it.
CtxCanceled == "context canceled"
TransportErrors(ctxDone) ==
    {<<"connection refused">>} \cup
    (IF ctxDone THEN {<<"Get/Post url: ", CtxCanceled>>} ELSE {})

\* --- QueuePrompt
StatusOK == "200"
Statuses == {StatusOK, "400", "500"}
NoHandle == ""
MaxNodes == 2
MaxImages == 2
NodeIds == 1..MaxNodes

\* A /prompt response: HTTP status and the fields of PromptResponse the body
\* decodes to (json FALSE: the body is not JSON of that shape).
QueueResponses ==
    [status : Statuses, json : BOOLEAN, prompt_id : {AwaitedID, NoHandle},
     error : {"", "invalid prompt"}, node_errors : SUBSET {1}]
NoResponse ==
    [status |-> "none", json |-> FALSE, prompt_id |-> NoHandle,
     error |-> "", node_errors |-> {}]

\* What QueuePrompt returns for a response: the handle, the error, and the
\* per-node errors the error text carries (the raw body of a non-200 answer
\* carries whatever the body held).
QueuePromptResult(resp) ==
    IF resp.status # StatusOK
    THEN [handle |-> NoHandle, err |-> <<"server returned ", resp.status>>,
          details |-> IF resp.json THEN resp.node_errors ELSE {}]
    ELSE IF ~resp.json
    THEN [handle |-> NoHandle, err |-> <<"unmarshal response: ", "json">>,
          details |-> {}]
    ELSE IF resp.error # ""
    THEN [handle |-> NoHandle, err |-> <<"comfyui error: ", resp.error>>,
          details |-> {}]
    ELSE [handle |-> resp.prompt_id, err |-> Nil, details |-> {}]

\* --- GetHistory and output resolution
\* The "outputs" object of a history entry as the backend wrote it: the nodes
\* in the order returned, each with its number of images.
Injective(q) == \A i, k \in DOMAIN q : q[i] = q[k] => i = k
NodeSeqs == {q \in UNION {[1..n -> NodeIds] : n \in 0..MaxNodes} : Injective(q)}
OutputLists ==
    UNION {{[i \in 1..Len(q) |-> [node |-> q[i], images |-> c[i]]] :
                c \in [1..Len(q) -> 0..MaxImages]} : q \in NodeSeqs}

\* A /history/{prompt_id} body: whether it has an entry under the awaited id
\* and with which outputs, and whether it has an entry under another id.
Histories == [own : BOOLEAN, outputs : OutputLists, other : BOOLEAN]
NoHistory == [own |-> FALSE, outputs |-> <<>>, other |-> FALSE]

\* json decoding into map[string]NodeOutput: node -> number of images; the
\* order of the object's members is not kept.
DecodeOutputs(list) ==
    [n \in {list[i].node : i \in DOMAIN list} |->
        (CHOOSE x \in {list[i] : i \in DOMAIN list} : x.node = n).images]

\* The orders in which range may visit a map.
RangeOrders(m) ==
    {q \in [1..Cardinality(DOMAIN m) -> DOMAIN m] : Injective(q)}

\* entry, ok := history[promptID]
HasEntry(h, promptID) ==
    \/ promptID = AwaitedID /\ h.own
    \/ promptID = OtherID /\ h.other

NoPick == [node |-> 0, index |-> 0]

\* A resolution that takes the first node visited, images or not.
Resolve_AnyNode(h, promptID, order) ==
    IF ~HasEntry(h, promptID)
    THEN [err |-> <<"prompt not found in history">>, pick |-> NoPick]
    ELSE IF Len(order) = 0
    THEN [err |-> <<"no output image found">>, pick |-> NoPick]
    ELSE [err |-> Nil, pick |-> [node |-> order[1], index |-> 1]]

\* The lookup and the loop of GenerateImage, visiting the nodes in `order`:
\* the first image of the first node visited that has one.
Resolve(h, promptID, order) ==
    IF ~HasEntry(h, promptID)
    THEN [err |-> <<"prompt not found in history">>, pick |-> NoPick]
    ELSE LET m == DecodeOutputs(h.outputs)
             hits == {i \in DOMAIN order : m[order[i]] > 0} IN
         IF hits = {}
         THEN [err |-> <<"no output image found">>, pick |-> NoPick]
         ELSE [err |-> Nil,
               pick |-> [node |-> order[CHOOSE i \in hits : \A k \in hits : i <= k],
                         index |-> 1]]

\* --- WaitForCompletion as GenerateImage sees it: nil or one of its errors.
WaitOutcomes(ctxDone) ==
    {Nil, <<"websocket dial: ", "connection refused">>,
     <<"ping failed: ", "broken pipe">>,
     <<"websocket closed unexpectedly">>,
     <<"websocket read: ", "i/o timeout">>,
     <<"websocket read: ", "unexpected EOF">>,
     <<"comfyui execution error: ", "data">>}
    \cup (IF ctxDone THEN {<<CtxCanceled>>} ELSE {})

\* One GenerateImage call made by a prompt handler.
\*   pc        "prepare", "queue", "wait" (WaitForCompletion called),
\*             "stream" (its connection is open), "history", "resolve",
\*             "image", "returned" (GenerateImage returned), "handled"
\*             (handler done)
\*   ws        the monitor's websocket: "none", "open" or "closed"
\*   ctxDone   the handler's context was cancelled
\*   qresp     the /prompt response; handle, details: what QueuePrompt made
\*             of it
\*   hist      the /history response; resolved: the lookup in it ran; pick:
\*             the image chosen from it
\*   downloads GetImage calls made
\*   err, data the return values of GenerateImage (data: image length, -1
\*             for nil)
\*   sent      the text the handler sent to the user after the call
GenEntry ==
    [pc |-> "prepare", ctxDone |-> FALSE, ws |-> "none", qresp |-> NoResponse,
     handle |-> NoHandle, details |-> {}, hist |-> NoHistory, resolved |-> FALSE,
     pick |-> NoPick, downloads |-> 0, err |-> Nil, data |-> -1, sent |-> NoMessage]

GenReturn(g, err) == [g EXCEPT !.pc = "returned", !.err = err]

InitGenerate ==
    /\ limiter = NewUserLimiter(0)
    /\ call = NoCall
    /\ mon = InitMonIdle
    /\ req = InitReqIdle
    /\ gen = GenEntry
    /\ wm = InitWmIdle
    /\ ctx = InitCtxIdle
    /\ acl = InitAclIdle

\* The handler's context is cancelled while GenerateImage runs.
GenCancel ==
    /\ gen.pc \notin {"returned", "handled"}
    /\ ~gen.ctxDone
    /\ gen' = [gen EXCEPT !.ctxDone = TRUE]
    /\ UNCHANGED <<limiter, call, mon, req, wm, ctx, acl>>

\* workflow, err := c.workflow.PrepareWorkflow(prompt)
GenPrepare ==
    /\ gen.pc = "prepare"
    /\ \/ gen' = [gen EXCEPT !.pc = "queue"]
       \/ gen' = GenReturn(gen, Wrapf("prepare workflow: ",
                                <<"prompt created invalid JSON: ", "json">>))
    /\ UNCHANGED <<limiter, call, mon, req, wm, ctx, acl>>

\* promptID, err := c.QueuePrompt(ctx, workflow, clientID)
GenQueue ==
    /\ gen.pc = "queue"
    /\ \/ \E e \in TransportErrors(gen.ctxDone) :
            gen' = GenReturn(gen, Wrapf("queue prompt: ", Wrapf("send request: ", e)))
       \/ \E resp \in QueueResponses :
            LET r == QueuePromptResult(resp) IN
            gen' = IF r.err # Nil
                   THEN [GenReturn(gen, Wrapf("queue prompt: ", r.err))
                            EXCEPT !.qresp = resp, !.details = r.details]
                   ELSE [gen EXCEPT !.pc = "wait", !.qresp = resp,
                                    !.handle = r.handle, !.details = r.details]
    /\ UNCHANGED <<limiter, call, mon, req, wm, ctx, acl>>

\* The error of a failed dialer.DialContext.
IsDialError(e) == IF Len(e) = 0 THEN FALSE ELSE e[1] = "websocket dial: "

\* monitor.WaitForCompletion(ctx, promptID, nil) dials the websocket.
GenDial ==
    /\ gen.pc = "wait"
    /\ \/ gen' = [gen EXCEPT !.pc = "stream", !.ws = "open"]
       \/ \E e \in WaitOutcomes(gen.ctxDone) :
            /\ IsDialError(e)
            /\ gen' = GenReturn(gen, Wrapf("wait for completion: ", e))
    /\ UNCHANGED <<limiter, call, mon, req, wm, ctx, acl>>

\* WaitForCompletion returns from its select loop; the deferred conn.Close()
\* runs.
GenWait ==
    /\ gen.pc = "stream"
    /\ \E e \in WaitOutcomes(gen.ctxDone) :
         /\ ~IsDialError(e)
         /\ gen' = IF e = Nil
                   THEN [gen EXCEPT !.pc = "history", !.ws = DeferredClose(@)]
                   ELSE [GenReturn(gen, Wrapf("wait for completion: ", e))
                            EXCEPT !.ws = DeferredClose(@)]
    /\ UNCHANGED <<limiter, call, mon, req, wm, ctx, acl>>

\* history, err := c.GetHistory(ctx, promptID)
GenHistory ==
    /\ gen.pc = "history"
    /\ \/ \E e \in TransportErrors(gen.ctxDone) :
            gen' = GenReturn(gen, Wrapf("get history: ", Wrapf("send request: ", e)))
       \/ gen' = GenReturn(gen, Wrapf("get history: ", <<"decode response: ", "json">>))
       \/ \E h \in Histories : gen' = [gen EXCEPT !.pc = "resolve", !.hist = h]
    /\ UNCHANGED <<limiter, call, mon, req, wm, ctx, acl>>

\* entry, ok := history[promptID] and the loop over entry.Outputs
GenResolve ==
    /\ gen.pc = "resolve"
    /\ \E order \in RangeOrders(DecodeOutputs(gen.hist.outputs)) :
         LET r == Resolve(gen.hist, gen.handle, order) IN
         gen' = IF r.err # Nil
                THEN [GenReturn(gen, r.err) EXCEPT !.resolved = TRUE]
                ELSE [gen EXCEPT !.pc = "image", !.resolved = TRUE,
                                 !.pick = r.pick]
    /\ UNCHANGED <<limiter, call, mon, req, wm, ctx, acl>>

\* return c.GetImage(ctx, img.Filename, img.Subfolder, img.Type)
GenImage ==
    /\ gen.pc = "image"
    /\ \/ \E e \in TransportErrors(gen.ctxDone) :
            gen' = [GenReturn(gen, Wrapf("send request: ", e))
                        EXCEPT !.downloads = @ + 1]
       \/ \E st \in Statuses \ {StatusOK} :
            gen' = [GenReturn(gen, <<"server returned ", st>>)
                        EXCEPT !.downloads = @ + 1]
       \/ \E n \in 0..1 :
            gen' = [GenReturn(gen, Nil) EXCEPT !.downloads = @ + 1, !.data = n]
    /\ UNCHANGED <<limiter, call, mon, req, wm, ctx, acl>>

\* The handler after GenerateImage returned: on an error it sends
\* GetUserMessage(err) and returns; otherwise it goes on to deliver the image.
GenHandle ==
    /\ gen.pc = "returned"
    /\ gen' = [gen EXCEPT !.pc = "handled",
                          !.sent = IF gen.err # Nil THEN GetUserMessage(gen.err)
                                   ELSE NoMessage]
    /\ UNCHANGED <<limiter, call, mon, req, wm, ctx, acl>>

NextGenerate ==
    \/ GenCancel
    \/ GenPrepare
    \/ GenQueue
    \/ GenDial
    \/ GenWait
    \/ GenHistory
    \/ GenResolve
    \/ GenImage
    \/ GenHandle

SpecGenerate == InitGenerate /\ [][NextGenerate]_vars

\* =============================================================== workflow
\* Texts are sequences of characters.  The characters that matter to JSON
\* string escaping, and one ordinary letter (the one that follows the
\* backslash in the escape of a newline):
DQ == "\""
BS == "\\"
NL == "\n"
CR == "\r"
TAB == "\t"
CTRL == "^A"
LT == "<"
Letter == "n"

\* const PromptPlaceholder = "{{PROMPT}}"
PromptPlaceholder == <<"{", "{", "P", "R", "O", "M", "P", "T", "}", "}">>

\* Whether text s has sub at position i.
HasAt(s, sub, i) ==
    /\ i + Len(sub) - 1 <= Len(s)
    /\ \A k \in 1..Len(sub) : s[i + k - 1] = sub[k]

\* strings.Contains
Contains(s, sub) == \E i \in 1..Len(s) : HasAt(s, sub, i)

\* strings.ReplaceAll, from position i on: non-overlapping occurrences, left
\* to right; the replacement is not scanned again.
RECURSIVE ReplaceFrom(_, _, _, _)
ReplaceFrom(s, old, new, i) ==
    IF i > Len(s) THEN <<>>
    ELSE IF HasAt(s, old, i)
    THEN new \o ReplaceFrom(s, old, new, i + Len(old))
    ELSE <<s[i]>> \o ReplaceFrom(s, old, new, i + 1)
ReplaceAll(s, old, new) == ReplaceFrom(s, old, new, 1)

\* The escape json.Marshal writes for one character of a string (HTML
\* escaping is on by default).
EscapeChar(c) ==
    CASE c = DQ -> <<BS, DQ>>
      [] c = BS -> <<BS, BS>>
      [] c = NL -> <<BS, "n">>
      [] c = CR -> <<BS, "r">>
      [] c = TAB -> <<BS, "t">>
      [] c = CTRL -> <<BS, "u", "0", "0", "0", "1">>
      [] c = LT -> <<BS, "u", "0", "0", "3", "c">>
      [] OTHER -> <<c>>

RECURSIVE EscapeFrom(_, _)
EscapeFrom(s, i) ==
    IF i > Len(s) THEN <<>> ELSE EscapeChar(s[i]) \o EscapeFrom(s, i + 1)

\* An escaping that leaves backslashes alone.
sanitizeForJSON_KeepsBackslash(s) ==
    ReplaceAll(EscapeFrom(s, 1), <<BS, BS>>, <<BS>>)

\* sanitizeForJSON: json.Marshal(s) without its surrounding quotes.
sanitizeForJSON(s) ==
    LET escaped == <<DQ>> \o EscapeFrom(s, 1) \o <<DQ>> IN
    SubSeq(escaped, 2, Len(escaped) - 1)

\* --- json.Unmarshal, for documents of the shape {"key":"value",...}
HexDigits ==
    {"0", "1", "2", "3", "4", "5", "6", "7", "8", "9",
     "a", "b", "c", "d", "e", "f", "A", "B", "C", "D", "E", "F"}
UnicodeOf(h) ==
    CASE h = <<"0", "0", "0", "1">> -> CTRL
      [] h = <<"0", "0", "3", "c">> -> LT
      [] OTHER -> "?"
SimpleEscape(c) ==
    CASE c = "n" -> NL
      [] c = "r" -> CR
      [] c = "t" -> TAB
      [] c = "b" -> "^H"
      [] c = "f" -> "^L"
      [] OTHER -> c
SimpleEscapes == {DQ, BS, "/", "b", "f", "n", "r", "t"}
ParseFail == [ok |-> FALSE, val |-> <<>>, next |-> 0]

\* The body of a JSON string from position i (after the opening quote), with
\* the characters decoded so far: up to the closing quote.
RECURSIVE StringBody(_, _, _)
StringBody(s, i, acc) ==
    IF i > Len(s) THEN ParseFail
    ELSE IF s[i] = DQ THEN [ok |-> TRUE, val |-> acc, next |-> i + 1]
    ELSE IF s[i] \in {NL, CR, TAB, CTRL} THEN ParseFail
    ELSE IF s[i] # BS THEN StringBody(s, i + 1, Append(acc, s[i]))
    ELSE IF i + 1 > Len(s) THEN ParseFail
    ELSE IF s[i + 1] \in SimpleEscapes
    THEN StringBody(s, i + 2, Append(acc, SimpleEscape(s[i + 1])))
    ELSE IF /\ s[i + 1] = "u"
            /\ i + 5 <= Len(s)
            /\ \A k \in 2..5 : s[i + k] \in HexDigits
    THEN StringBody(s, i + 6, Append(acc, UnicodeOf(SubSeq(s, i + 2, i + 5))))
    ELSE ParseFail

ParseString(s, i) ==
    IF i <= Len(s) /\ s[i] = DQ THEN StringBody(s, i + 1, <<>>) ELSE ParseFail

\* The members of an object from position i: "key":"value" separated by
\* commas, closed by a brace that ends the text.
RECURSIVE Members(_, _, _)
Members(s, i, acc) ==
    LET k == ParseString(s, i) IN
    IF ~k.ok \/ k.next > Len(s) \/ s[k.next] # ":" THEN ParseFail
    ELSE LET v == ParseString(s, k.next + 1) IN
         IF ~v.ok \/ v.next > Len(s) THEN ParseFail
         ELSE IF s[v.next] = "}"
         THEN IF v.next = Len(s)
              THEN [ok |-> TRUE, val |-> Append(acc, <<k.val, v.val>>), next |-> v.next + 1]
              ELSE ParseFail
         ELSE IF s[v.next] = ","
         THEN Members(s, v.next + 1, Append(acc, <<k.val, v.val>>))
         ELSE ParseFail

\* json.Unmarshal(data, &map[string]any): ok and the members, or failure.
Unmarshal(s) ==
    IF Len(s) >= 2 /\ s[1] = "{"
    THEN IF s[2] = "}" /\ Len(s) = 2 THEN [ok |-> TRUE, val |-> <<>>, next |-> 3]
         ELSE Members(s, 2, <<>>)
    ELSE ParseFail

\* --- the template file and the manager
\* The contents the template file can have:
\*   "plain"   {"t":"{{PROMPT}}"}
\*   "framed"  {"t":"n{{PROMPT}}\n","s":"{{PROMPT}}"}  (\n an escape)
\*   "broken"  {"t":"{{PROMPT}}"      not JSON, has the placeholder
\*   "bare"    {"t":{{PROMPT}}}       not JSON, placeholder outside a string
\*   "fixed"   {"t":"n"}              JSON without the placeholder
\*   "gone"    the file cannot be read
Files == {"plain", "framed", "broken", "bare", "fixed", "gone"}
Open == <<"{", DQ, "t", DQ, ":">>
FileBytes(f) ==
    CASE f = "plain" -> Open \o <<DQ>> \o PromptPlaceholder \o <<DQ, "}">>
      [] f = "framed" ->
            Open \o <<DQ, Letter>> \o PromptPlaceholder \o <<BS, "n", DQ>>
                 \o <<",", DQ, "s", DQ, ":", DQ>> \o PromptPlaceholder \o <<DQ, "}">>
      [] f = "broken" -> Open \o <<DQ>> \o PromptPlaceholder \o <<DQ>>
      [] f = "bare" -> Open \o PromptPlaceholder \o <<"}">>
      [] f = "fixed" -> Open \o <<DQ, Letter, DQ, "}">>
      [] OTHER -> <<>>

\* A Load that stores the file's bytes before it validates them.
Load_AssignFirst(template, f) ==
    IF f = "gone"
    THEN [err |-> <<"read workflow file: ", "no such file">>, template |-> template]
    ELSE LET data == FileBytes(f) IN
         IF ~Unmarshal(data).ok
         THEN [err |-> <<"invalid workflow JSON: ", "json">>, template |-> data]
         ELSE IF ~Contains(data, PromptPlaceholder)
         THEN [err |-> <<"workflow must contain {{PROMPT}} placeholder">>,
               template |-> data]
         ELSE [err |-> Nil, template |-> data]

\* WorkflowManager.Load with file content f: the error returned and
\* wm.template afterwards.
Load(template, f) ==
    IF f = "gone"
    THEN [err |-> <<"read workflow file: ", "no such file">>, template |-> template]
    ELSE LET data == FileBytes(f) IN
         IF ~Unmarshal(data).ok
         THEN [err |-> <<"invalid workflow JSON: ", "json">>, template |-> template]
         ELSE IF ~Contains(data, PromptPlaceholder)
         THEN [err |-> <<"workflow must contain {{PROMPT}} placeholder">>,
               template |-> template]
         ELSE [err |-> Nil, template |-> data]

\* WorkflowManager.PrepareWorkflow(userPrompt) on the given template.
PrepareWorkflow(template, userPrompt) ==
    LET sanitized == sanitizeForJSON(userPrompt)
        modified == ReplaceAll(template, PromptPlaceholder, sanitized)
        parsed == Unmarshal(modified) IN
    IF parsed.ok THEN [err |-> Nil, workflow |-> parsed.val]
    ELSE [err |-> <<"prompt created invalid JSON: ", "json">>, workflow |-> <<>>]

\* Prompt texts: up to MaxPieces pieces, each one character or the
\* placeholder token.
MaxPieces == 3
Pieces == {<<DQ>>, <<BS>>, <<NL>>, <<CTRL>>, <<Letter>>, PromptPlaceholder}
RECURSIVE Concat(_, _)
Concat(q, i) == IF i > Len(q) THEN <<>> ELSE q[i] \o Concat(q, i + 1)
Prompts ==
    {Concat(q, 1) : q \in UNION {[1..n -> Pieces] : n \in 0..MaxPieces}}

\* The manager and the last call on it.
\*   op        "none" (not constructed), "new", "load", "reload", "prepare"
\*   template  wm.template
\*   file      the file content the last call met, if it was a Load
\*   prev      wm.template before the last call
\*   prompt    the prompt text the handlers pass to PrepareWorkflow
\*   err, workflow   what the last call returned
WmEntry(prompt) ==
    [op |-> "none", template |-> <<>>, file |-> "gone",
     prev |-> <<>>, prompt |-> prompt, err |-> Nil, workflow |-> <<>>]

InitWorkflow ==
    /\ limiter = NewUserLimiter(0)
    /\ call = NoCall
    /\ mon = InitMonIdle
    /\ req = InitReqIdle
    /\ gen = InitGenIdle
    /\ \E p \in Prompts : wm = WmEntry(p)
    /\ ctx = InitCtxIdle
    /\ acl = InitAclIdle

\* The result of a Load, recorded on the manager.
AfterLoad(w, op, f) ==
    LET r == Load(w.template, f) IN
    [w EXCEPT !.op = op, !.file = f, !.prev = w.template,
              !.template = r.template, !.err = r.err, !.workflow = <<>>]

\* NewWorkflowManager: the manager exists only if the first Load succeeds.
WmNew ==
    /\ wm.op = "none"
    /\ \E f \in Files :
         /\ Load(<<>>, f).err = Nil
         /\ wm' = AfterLoad(wm, "new", f)
    /\ UNCHANGED <<limiter, call, mon, req, gen, ctx, acl>>

WmLoad ==
    /\ wm.op # "none"
    /\ \E f \in Files : wm' = AfterLoad(wm, "load", f)
    /\ UNCHANGED <<limiter, call, mon, req, gen, ctx, acl>>

WmReload ==
    /\ wm.op # "none"
    /\ \E f \in Files : wm' = AfterLoad(wm, "reload", f)
    /\ UNCHANGED <<limiter, call, mon, req, gen, ctx, acl>>

WmPrepare ==
    /\ wm.op # "none"
    /\ LET r == PrepareWorkflow(wm.template, wm.prompt) IN
         wm' = [wm EXCEPT !.op = "prepare", !.file = "gone",
                          !.prev = wm.template, !.err = r.err, !.workflow = r.workflow]
    /\ UNCHANGED <<limiter, call, mon, req, gen, ctx, acl>>

NextWorkflow ==
    \/ WmNew
    \/ WmLoad
    \/ WmReload
    \/ WmPrepare

SpecWorkflow == InitWorkflow /\ [][NextWorkflow]_vars

\* ================================================================= access
\* The users are the actors; a private chat has the id of its user, the ids
\* of group chats are negative.  adminUserID 0 means that no admin is
\* configured.
Groups == {-1}
NoAdmin == 0

\* A message text is a sequence of pieces; an entity names its type, the
\* index of its first piece and the number of pieces it covers.  Telegram
\* marks "/status" and "/status@bot" as one bot_command entity and a
\* free-standing "@bot" as a mention.
BotUsername == "@bot"
Entity(type, first, len) == [type |-> type, first |-> first, len |-> len]
MsgForms ==
    {"plain", "photo", "mention", "mentionOnly", "command", "commandAt", "revoke"}
MsgText(form, arg) ==
    CASE form = "plain"       -> <<"cat">>
      [] form = "photo"       -> <<>>
      [] form = "mention"     -> <<BotUsername, " ", "cat">>
      [] form = "mentionOnly" -> <<BotUsername>>
      [] form = "command"     -> <<"/status">>
      [] form = "commandAt"   -> <<"/status", BotUsername>>
      [] form = "revoke"      -> <<"/revoke", " ", ToString(arg)>>
MsgEntities(form) ==
    CASE form = "plain"       -> <<>>
      [] form = "photo"       -> <<>>
      [] form = "mention"     -> <<Entity("mention", 1, 1)>>
      [] form = "mentionOnly" -> <<Entity("mention", 1, 1)>>
      [] form = "command"     -> <<Entity("bot_command", 1, 1)>>
      [] form = "commandAt"   -> <<Entity("bot_command", 1, 2)>>
      [] form = "revoke"      -> <<Entity("bot_command", 1, 1)>>

\* len(s) of a text, in bytes.
PieceLen(p) ==
    CASE p = " " -> 1
      [] p = "cat" -> 3
      [] p = BotUsername -> 4
      [] p \in {"/status", "/revoke"} -> 7
      [] OTHER -> 1
RECURSIVE TextLen(_)
TextLen(t) == IF t = <<>> THEN 0 ELSE PieceLen(Head(t)) + TextLen(Tail(t))

\* strings.TrimSpace
RECURSIVE TrimLeft(_)
TrimLeft(t) ==
    IF t = <<>> THEN t ELSE IF Head(t) = " " THEN TrimLeft(Tail(t)) ELSE t
RECURSIVE TrimRight(_)
TrimRight(t) ==
    IF t = <<>> THEN t
    ELSE IF t[Len(t)] = " " THEN TrimRight(SubSeq(t, 1, Len(t) - 1)) ELSE t
TrimSpace(t) == TrimRight(TrimLeft(t))

\* msg.IsCommand(): the first entity is a bot_command at offset 0;
\* msg.Command() is the command without the "@bot" that may follow it.
IsCommand(es) ==
    IF Len(es) = 0 THEN FALSE
    ELSE es[1].type = "bot_command" /\ es[1].first = 1
Command(t) == t[1]

\* parseBotMention: the prompt around the mention of the bot, and whether
\* there is a mention.  Without a mention entity that is the bot's name, the
\* first occurrence of the name is cut out of the text.
NoMention == [prompt |-> <<>>, has |-> FALSE]
parseBotMention(t, es) ==
    LET named == {i \in 1..Len(t) : t[i] = BotUsername}
        ments == {i \in 1..Len(es) :
                    /\ es[i].type = "mention"
                    /\ SubSeq(t, es[i].first, es[i].first + es[i].len - 1)
                          = <<BotUsername>>}
    IN  IF t = <<>> THEN NoMention
        ELSE IF named = {} THEN NoMention
        ELSE IF ments # {}
        THEN LET e == es[CHOOSE i \in ments : \A k \in ments : i <= k]
                 beforeMention == TrimSpace(SubSeq(t, 1, e.first - 1))
                 afterMention == TrimSpace(SubSeq(t, e.first + e.len, Len(t)))
             IN  [prompt |-> IF beforeMention # <<>> /\ afterMention # <<>>
                             THEN beforeMention \o <<" ">> \o afterMention
                             ELSE IF beforeMention # <<>> THEN beforeMention
                             ELSE afterMention,
                  has |-> TRUE]
        ELSE LET idx == CHOOSE i \in named : \A k \in named : i <= k
             IN  [prompt |-> TrimSpace(SubSeq(t, 1, idx - 1)
                                       \o SubSeq(t, idx + 1, Len(t))),
                  has |-> TRUE]

\* The Whitelist and the admin store: the static list, the admin,
\* approved_users, approved_groups and pending_requests (a request is
\* "added" until the admin's message id is stored with it).  The store is
\* absent ("nil"), answers ("ok") or returns an error from every call
\* ("failing").
\* approved_groups and pending_group_requests (gpending) are written by the
\* handlers of group requests, which repeat those of user requests on
\* tables of their own.
\* An admin check that forgets to compare the sender with the admin.
IsAdmin_AnySender(a, userID) == a.admin # NoAdmin

IsAdmin(a, userID) == a.admin # NoAdmin /\ userID = a.admin

IsAllowed_PendingToo(a, userID) ==
    IF userID \in a.static THEN TRUE
    ELSE IF userID = a.admin /\ a.admin # NoAdmin THEN TRUE
    ELSE IF a.store # "nil"
         THEN IF a.store = "failing" THEN FALSE
              ELSE userID \in a.approved \/ a.pending[userID] # "none"
    ELSE FALSE
IsAllowed(a, userID) ==
    IF userID \in a.static THEN TRUE
    ELSE IF userID = a.admin /\ a.admin # NoAdmin THEN TRUE
    ELSE IF a.store # "nil"
         THEN IF a.store = "failing" THEN FALSE ELSE userID \in a.approved
    ELSE FALSE

IsGroupAllowed(a, groupID) ==
    IF a.store # "nil"
    THEN IF a.store = "failing" THEN FALSE ELSE groupID \in a.groups
    ELSE FALSE

\* CheckAccess for a message or a callback query with a sender.
CheckAccess(a, from, chat) ==
    IF chat \in Groups THEN IsGroupAllowed(a, chat) ELSE IsAllowed(a, from)

\* The updates: a message of one of the forms, or the press of a settings
\* button, from a user in the private chat or in a group.
Chats(from) == {from} \cup Groups
Updates ==
    {u \in [kind : {"message", "callback"}, from : Actors,
            chat : Actors \cup Groups, form : MsgForms, arg : Actors] :
        /\ u.chat \in Chats(u.from)
        /\ u.form # "revoke" => u.arg = u.from
        /\ u.kind = "callback" => u.form = "plain"}
NoUpdate == [kind |-> "none"]
Handled(a, u, route) == [a |-> a, route |-> route]

\* handlePrompt and handleGroupPrompt up to TryAcquire: the prompt is
\* trimmed and one shorter than 3 is refused.
PromptRoute(prompt) ==
    IF TextLen(TrimSpace(prompt)) < 3 THEN "tooShort" ELSE "generate"

\* adminStore.RemoveApproved
RemoveApproved_AndStatic(a, userID) ==
    [a EXCEPT !.approved = @ \ {userID}, !.static = @ \ {userID}]
RemoveApproved(a, userID) == [a EXCEPT !.approved = @ \ {userID}]

handleRevoke(a, u) ==
    IF ~IsAdmin(a, u.from) THEN Handled(a, u, "adminOnly")
    ELSE IF a.store = "nil" THEN Handled(a, u, "notConfigured")
    ELSE IF a.store = "failing" THEN Handled(a, u, "revokeFailed")
    ELSE Handled(RemoveApproved(a, u.arg), u, "revoked")

handleCommand(a, u) ==
    IF Command(MsgText(u.form, u.arg)) = "/revoke" THEN handleRevoke(a, u)
    ELSE Handled(a, u, "command")

\* handleUnauthorizedUser; notified says whether the admin's message was
\* sent and its id stored.
handleUnauthorizedUser(a, u, notified) ==
    IF a.admin = NoAdmin \/ a.store = "nil" THEN Handled(a, u, "unauthorized")
    ELSE IF a.store = "failing" THEN Handled(a, u, "unauthorized")
    ELSE IF a.pending[u.from] = "notified" THEN Handled(a, u, "pendingReply")
    ELSE Handled([a EXCEPT !.pending[u.from] =
                               IF notified THEN "notified" ELSE "added"],
                 u, "requestSent")

\* HandleUpdate for an update that is no admin callback.
HandleUpdate(a, u, notified) ==
    LET isGroup == u.chat \in Groups
        allowed == CheckAccess(a, u.from, u.chat)
        text    == MsgText(u.form, u.arg)
        ents    == MsgEntities(u.form)
        m       == parseBotMention(text, ents)
    IN  IF ~allowed
        THEN IF u.kind = "message"
             THEN IF isGroup THEN Handled(a, u, "unauthorizedGroup")
                  ELSE handleUnauthorizedUser(a, u, notified)
             ELSE Handled(a, u, "dropped")
        ELSE IF u.kind = "callback" THEN Handled(a, u, "settings")
        ELSE IF isGroup
        THEN IF m.has /\ m.prompt # <<>>
             THEN Handled(a, u, PromptRoute(m.prompt))
             ELSE Handled(a, u, "ignored")
        ELSE IF IsCommand(ents) THEN handleCommand(a, u)
        ELSE IF text # <<>> THEN Handled(a, u, PromptRoute(text))
        ELSE Handled(a, u, "ignored")

NoCb == [pc |-> "none"]
AclEntry(static, admin, store, groups) ==
    [op |-> "serve", static |-> static, admin |-> admin, store |-> store,
     approved |-> {}, groups |-> groups, gpending |-> {},
     pending |-> [x \in Actors |-> "none"], cb |-> NoCb, last |-> NoUpdate]

InitAccess ==
    /\ limiter = NewUserLimiter(0)
    /\ call = NoCall
    /\ mon = InitMonIdle
    /\ req = InitReqIdle
    /\ gen = InitGenIdle
    /\ wm = InitWmIdle
    /\ ctx = InitCtxIdle
    /\ \E static \in SUBSET Actors, admin \in {NoAdmin} \cup Actors,
          store \in {"nil", "ok"}, groups \in SUBSET Groups :
         /\ store = "nil" => groups = {}
         /\ acl = AclEntry(static, admin, store, groups)

\* One update that is no admin callback is handled; acl.last keeps the update
\* and what HandleUpdate did with it until the handler has returned.
AclUpdate ==
    /\ acl.op = "serve"
    /\ acl.last = NoUpdate
    /\ \E u \in Updates :
         \/ LET h == HandleUpdate(acl, u, TRUE) IN
              acl' = [h.a EXCEPT !.last = [u EXCEPT !.kind = h.route]]
         \/ LET h == HandleUpdate(acl, u, FALSE) IN
              /\ h.route = "requestSent"
              /\ acl' = [h.a EXCEPT !.last = [u EXCEPT !.kind = h.route]]
    /\ UNCHANGED <<limiter, call, mon, req, gen, wm, ctx>>

\* The handler of the update returns.
AclReturn ==
    /\ acl.op = "serve"
    /\ acl.last # NoUpdate
    /\ acl' = [acl EXCEPT !.last = NoUpdate]
    /\ UNCHANGED <<limiter, call, mon, req, gen, wm, ctx>>

\* The store starts or stops returning errors.
StoreFlip ==
    /\ acl.op = "serve"
    /\ acl.last = NoUpdate
    /\ acl.store # "nil"
    /\ acl' = [acl EXCEPT !.store = IF @ = "ok" THEN "failing" ELSE "ok"]
    /\ UNCHANGED <<limiter, call, mon, req, gen, wm, ctx>>

\* handleAdminCallback, one step for each call of the store.  The answer to
\* the callback query ends the handler.
Answered(a, action, userID, answer) ==
    [a EXCEPT !.cb = NoCb,
              !.last = [kind |-> "adminCallback", action |-> action,
                        user |-> userID, answer |-> answer]]

\* The admin check, the parsing of the data and GetPending.
CbGetPending ==
    /\ acl.op = "serve"
    /\ acl.last = NoUpdate
    /\ acl.cb = NoCb
    /\ acl.store # "nil"
    /\ \E from \in Actors, action \in {"approve", "reject"}, userID \in Actors :
         acl' = IF ~IsAdmin(acl, from)
                THEN Answered(acl, action, userID, "Unauthorized")
                ELSE IF acl.store = "failing"
                THEN Answered(acl, action, userID, "Failed to get request")
                ELSE IF acl.pending[userID] = "none"
                THEN Answered(acl, action, userID,
                              "Request not found or already processed")
                ELSE [acl EXCEPT !.cb = [pc |-> "found", action |-> action,
                                         user |-> userID, from |-> from]]
    /\ UNCHANGED <<limiter, call, mon, req, gen, wm, ctx>>

\* case "approve": AddApproved
CbAddApproved ==
    /\ acl.last = NoUpdate
    /\ acl.cb.pc = "found"
    /\ acl.cb.action = "approve"
    /\ acl' = IF acl.store = "failing"
              THEN Answered(acl, "approve", acl.cb.user, "Failed to approve")
              ELSE [acl EXCEPT !.approved = @ \cup {acl.cb.user},
                               !.cb.pc = "added"]
    /\ UNCHANGED <<limiter, call, mon, req, gen, wm, ctx>>

\* RemovePending, whose error is only logged, the messages to the user and
\* to the admin, and the answer.
RemovePending(a, userID) ==
    IF a.store = "failing" THEN a ELSE [a EXCEPT !.pending[userID] = "none"]
CbRemovePending ==
    /\ acl.last = NoUpdate
    /\ \/ acl.cb.pc = "added"
       \/ acl.cb.pc = "found" /\ acl.cb.action = "reject"
    /\ acl' = Answered(RemovePending(acl, acl.cb.user), acl.cb.action,
                       acl.cb.user,
                       IF acl.cb.action = "approve" THEN "User approved"
                       ELSE "User rejected")
    /\ UNCHANGED <<limiter, call, mon, req, gen, wm, ctx>>

NextAccess ==
    \/ AclUpdate
    \/ AclReturn
    \/ StoreFlip
    \/ CbGetPending
    \/ CbAddApproved
    \/ CbRemovePending

SpecAccess == InitAccess /\ [][NextAccess]_vars

\* --- group requests
\* handleUnauthorizedGroup: a mention of the bot in a group that is not
\* approved adds the group to the pending requests.
handleUnauthorizedGroup(a, groupID, hasMention) ==
    IF ~hasMention THEN a
    ELSE IF a.admin = NoAdmin \/ a.store = "nil" THEN a
    ELSE IF a.store = "failing" THEN a
    ELSE [a EXCEPT !.gpending = @ \cup {groupID}]

\* handleAdminGroupCallback: the admin check, GetPendingGroup and the
\* switch on the action.
handleAdminGroupCallback(a, from, action, groupID) ==
    IF ~IsAdmin(a, from) THEN a
    ELSE IF a.store = "failing" THEN a
    ELSE IF groupID \notin a.gpending THEN a
    ELSE IF action = "approve"
    THEN [a EXCEPT !.groups = @ \cup {groupID}, !.gpending = @ \ {groupID}]
    ELSE [a EXCEPT !.gpending = @ \ {groupID}]

\* handleRevokeGroup
handleRevokeGroup(a, from, groupID) ==
    IF ~IsAdmin(a, from) THEN a
    ELSE IF a.store \in {"nil", "failing"} THEN a
    ELSE [a EXCEPT !.groups = @ \ {groupID}]

\* A message in a group that is not approved.
GrpRequest ==
    /\ acl.op = "serve"
    /\ acl.last = NoUpdate
    /\ \E from \in Actors, g \in Groups, form \in {"plain", "mention"} :
         /\ ~CheckAccess(acl, from, g)
         /\ acl' = [handleUnauthorizedGroup(acl, g,
                        parseBotMention(MsgText(form, from),
                                        MsgEntities(form)).has)
                        EXCEPT !.last = [kind |-> "groupRequest", from |-> from,
                                         chat |-> g, form |-> form]]
    /\ UNCHANGED <<limiter, call, mon, req, gen, wm, ctx>>

\* The press of a button of a group request.
GrpCallback ==
    /\ acl.op = "serve"
    /\ acl.last = NoUpdate
    /\ acl.store # "nil"
    /\ \E from \in Actors, action \in {"approve", "reject"}, g \in Groups :
         acl' = [handleAdminGroupCallback(acl, from, action, g)
                    EXCEPT !.last = [kind |-> "groupCallback", from |-> from,
                                     chat |-> g, form |-> action]]
    /\ UNCHANGED <<limiter, call, mon, req, gen, wm, ctx>>

\* /revokegroup, sent in a private chat by a user who passes CheckAccess.
GrpRevoke ==
    /\ acl.op = "serve"
    /\ acl.last = NoUpdate
    /\ \E from \in Actors, g \in Groups :
         /\ CheckAccess(acl, from, from)
         /\ acl' = [handleRevokeGroup(acl, from, g)
                        EXCEPT !.last = [kind |-> "revokeGroup", from |-> from,
                                         chat |-> from, form |-> "command"]]
    /\ UNCHANGED <<limiter, call, mon, req, gen, wm, ctx>>

NextAdmin ==
    \/ NextAccess
    \/ GrpRequest
    \/ GrpCallback
    \/ GrpRevoke

SpecAdmin == InitAccess /\ [][NextAdmin]_vars

\* ================================================================== reload
\* Concurrent Load and PrepareWorkflow calls on one WorkflowManager.  The
\* versions of the template file differ in length and in every byte:
\* version v is v + 1 bytes v.  A freshly made buffer holds zero bytes.
MaxVersions == 2
Versions == 1..MaxVersions
Buffer(v) == [i \in 1..(v + 1) |-> v]
ZeroByte == 0

\* sync.RWMutex: Lock waits until no writer and no reader holds the mutex,
\* RLock until no writer holds it.
NewMutex == [w |-> FALSE, r |-> 0]
CanLock_IgnoresReaders(mu) == ~mu.w
CanLock(mu) == ~mu.w /\ mu.r = 0
CanRLock(mu) == ~mu.w

Loaders == Actors
IdleLoader == [pc |-> "idle", data |-> <<>>]
IdlePreparer == [pc |-> "idle", n |-> 0, copy |-> <<>>]

\* NewWorkflowManager has loaded some version of the file.
InitReload ==
    /\ limiter = NewUserLimiter(0)
    /\ call = NoCall
    /\ mon = InitMonIdle
    /\ req = InitReqIdle
    /\ gen = InitGenIdle
    /\ ctx = InitCtxIdle
    /\ acl = InitAclIdle
    /\ \E v \in Versions :
         wm = [op |-> "reload", template |-> Buffer(v), mu |-> NewMutex,
               ld |-> [l \in Loaders |-> IdleLoader],
               pr |-> [p \in Reqs |-> IdlePreparer]]

\* Load: os.ReadFile and the validation of what was read.  A file that
\* cannot be read or is not valid makes Load return before it locks.
LdRead(l) ==
    /\ wm.op = "reload"
    /\ wm.ld[l].pc = "idle"
    /\ \E v \in Versions, valid \in BOOLEAN :
         wm' = IF valid
               THEN [wm EXCEPT !.ld[l] = [pc |-> "read", data |-> Buffer(v)]]
               ELSE wm
    /\ UNCHANGED <<limiter, call, mon, req, gen, ctx, acl>>

\* wm.mu.Lock()
LdLock(l) ==
    /\ wm.op = "reload"
    /\ wm.ld[l].pc = "read"
    /\ CanLock(wm.mu)
    /\ wm' = [wm EXCEPT !.mu.w = TRUE, !.ld[l].pc = "locked"]
    /\ UNCHANGED <<limiter, call, mon, req, gen, ctx, acl>>

\* wm.template = data
LdAssign(l) ==
    /\ wm.op = "reload"
    /\ wm.ld[l].pc = "locked"
    /\ wm' = [wm EXCEPT !.template = wm.ld[l].data, !.ld[l].pc = "assigned"]
    /\ UNCHANGED <<limiter, call, mon, req, gen, ctx, acl>>

\* wm.mu.Unlock() and the return of Load
LdUnlock(l) ==
    /\ wm.op = "reload"
    /\ wm.ld[l].pc = "assigned"
    /\ wm' = [wm EXCEPT !.mu.w = FALSE, !.ld[l] = IdleLoader]
    /\ UNCHANGED <<limiter, call, mon, req, gen, ctx, acl>>

\* PrepareWorkflow: wm.mu.RLock()
PrRLock(p) ==
    /\ wm.op = "reload"
    /\ wm.pr[p].pc = "idle"
    /\ CanRLock(wm.mu)
    /\ wm' = [wm EXCEPT !.mu.r = @ + 1, !.pr[p] = [IdlePreparer EXCEPT !.pc = "rlocked"]]
    /\ UNCHANGED <<limiter, call, mon, req, gen, ctx, acl>>

\* templateCopy := make([]byte, len(wm.template))
PrMake(p) ==
    /\ wm.op = "reload"
    /\ wm.pr[p].pc = "rlocked"
    /\ wm' = [wm EXCEPT !.pr[p] =
                [pc |-> "made", n |-> Len(wm.template),
                 copy |-> [i \in 1..Len(wm.template) |-> ZeroByte]]]
    /\ UNCHANGED <<limiter, call, mon, req, gen, ctx, acl>>

\* copy(templateCopy, wm.template): as many bytes as the shorter of the two
\* has.
PrCopy(p) ==
    /\ wm.op = "reload"
    /\ wm.pr[p].pc = "made"
    /\ wm' = [wm EXCEPT !.pr[p].pc = "copied",
                        !.pr[p].copy =
                            [i \in 1..wm.pr[p].n |->
                                IF i <= Len(wm.template) THEN wm.template[i]
                                ELSE @[i]]]
    /\ UNCHANGED <<limiter, call, mon, req, gen, ctx, acl>>

\* wm.mu.RUnlock(); the substitution then works on templateCopy.
PrRUnlock(p) ==
    /\ wm.op = "reload"
    /\ wm.pr[p].pc = "copied"
    /\ wm' = [wm EXCEPT !.mu.r = @ - 1, !.pr[p].pc = "unlocked"]
    /\ UNCHANGED <<limiter, call, mon, req, gen, ctx, acl>>

\* PrepareWorkflow returns.
PrReturn(p) ==
    /\ wm.op = "reload"
    /\ wm.pr[p].pc = "unlocked"
    /\ wm' = [wm EXCEPT !.pr[p] = IdlePreparer]
    /\ UNCHANGED <<limiter, call, mon, req, gen, ctx, acl>>

NextReload ==
    \/ \E l \in Loaders : LdRead(l)
    \/ \E l \in Loaders : LdLock(l)
    \/ \E l \in Loaders : LdAssign(l)
    \/ \E l \in Loaders : LdUnlock(l)
    \/ \E p \in Reqs : PrRLock(p)
    \/ \E p \in Reqs : PrMake(p)
    \/ \E p \in Reqs : PrCopy(p)
    \/ \E p \in Reqs : PrRUnlock(p)
    \/ \E p \in Reqs : PrReturn(p)

SpecReload == InitReload /\ [][NextReload]_vars

\* ======================================================== limiter, locked
\* The methods of UserLimiter step by step, called from concurrent
\* goroutines.  call.mu is the goroutine that holds l.mu (0: nobody),
\* call.th the position of every goroutine, call.held the users whose
\* TryAcquire returned true and whose Release has not returned since.
MuFree_Always(mu) == TRUE
MuFree(mu) == mu = 0

IdleThread == [pc |-> "idle", op |-> "none", user |-> 0, ret |-> FALSE, n |-> 0]
LimiterOps == {"TryAcquire", "Release", "ActiveCount", "IsUserActive"}

InitLocked ==
    /\ \E m \in 0..MaxCap : limiter = NewUserLimiter(m)
    /\ call = [op |-> "locked", mu |-> 0, held |-> {},
               th |-> [t \in Reqs |-> IdleThread]]
    /\ mon = InitMonIdle
    /\ req = InitReqIdle
    /\ gen = InitGenIdle
    /\ wm = InitWmIdle
    /\ ctx = InitCtxIdle
    /\ acl = InitAclIdle

\* A goroutine calls a method.
LkCall(t) ==
    /\ call.op = "locked"
    /\ call.th[t].pc = "idle"
    /\ \E o \in LimiterOps, u \in Actors :
         call' = [call EXCEPT !.th[t] =
                     [IdleThread EXCEPT !.pc = "lock", !.op = o, !.user = u]]
    /\ UNCHANGED <<limiter, mon, req, gen, wm, ctx, acl>>

\* l.mu.Lock()
LkLock(t) ==
    /\ call.op = "locked"
    /\ call.th[t].pc = "lock"
    /\ MuFree(call.mu)
    /\ call' = [call EXCEPT !.mu = t, !.th[t].pc = "check"]
    /\ UNCHANGED <<limiter, mon, req, gen, wm, ctx, acl>>

\* The tests at the head of the method, and the whole of the two readers.
LkCheck(t) ==
    /\ call.op = "locked"
    /\ call.th[t].pc = "check"
    /\ LET th == call.th[t]
           exists == th.user \in limiter.activeUsers
           full == limiter.maxGlobal > 0
                      /\ limiter.globalCount >= limiter.maxGlobal
       IN  call' = [call EXCEPT !.th[t] =
             CASE th.op = "TryAcquire" ->
                    IF exists \/ full THEN [th EXCEPT !.pc = "unlock"]
                    ELSE [th EXCEPT !.pc = "set"]
               [] th.op = "Release" ->
                    IF exists THEN [th EXCEPT !.pc = "set"]
                    ELSE [th EXCEPT !.pc = "unlock"]
               [] th.op = "ActiveCount" ->
                    [th EXCEPT !.pc = "unlock", !.n = limiter.globalCount]
               [] th.op = "IsUserActive" ->
                    [th EXCEPT !.pc = "unlock", !.ret = exists]]
    /\ UNCHANGED <<limiter, mon, req, gen, wm, ctx, acl>>

\* l.activeUsers[userID] = struct{}{}  or  delete(l.activeUsers, userID)
LkSet(t) ==
    /\ call.op = "locked"
    /\ call.th[t].pc = "set"
    /\ limiter' = [limiter EXCEPT !.activeUsers =
                      IF call.th[t].op = "TryAcquire"
                      THEN @ \cup {call.th[t].user}
                      ELSE @ \ {call.th[t].user}]
    /\ call' = [call EXCEPT !.th[t].pc = "count"]
    /\ UNCHANGED <<mon, req, gen, wm, ctx, acl>>

\* l.globalCount++  or  l.globalCount--
LkCount(t) ==
    /\ call.op = "locked"
    /\ call.th[t].pc = "count"
    /\ limiter' = [limiter EXCEPT !.globalCount =
                      IF call.th[t].op = "TryAcquire" THEN @ + 1 ELSE @ - 1]
    /\ call' = [call EXCEPT !.th[t].pc = "unlock",
                            !.th[t].ret = (call.th[t].op = "TryAcquire")]
    /\ UNCHANGED <<mon, req, gen, wm, ctx, acl>>

\* The deferred l.mu.Unlock() and the return of the method.
LkUnlock(t) ==
    /\ call.op = "locked"
    /\ call.th[t].pc = "unlock"
    /\ call' = [call EXCEPT
                  !.mu = 0,
                  !.th[t] = IdleThread,
                  !.held = IF call.th[t].op = "TryAcquire" /\ call.th[t].ret
                           THEN @ \cup {call.th[t].user}
                           ELSE IF call.th[t].op = "Release"
                           THEN @ \ {call.th[t].user}
                           ELSE @]
    /\ UNCHANGED <<limiter, mon, req, gen, wm, ctx, acl>>

NextLocked ==
    \/ \E t \in Reqs : LkCall(t)
    \/ \E t \in Reqs : LkLock(t)
    \/ \E t \in Reqs : LkCheck(t)
    \/ \E t \in Reqs : LkSet(t)
    \/ \E t \in Reqs : LkCount(t)
    \/ \E t \in Reqs : LkUnlock(t)

SpecLocked == InitLocked /\ [][NextLocked]_vars

\* ============================================================= client ids
\* Concurrent GenerateImage calls, each with the ExecutionMonitor it makes.
\* uuid.New() is taken to return a value it has not returned before: the
\* n-th value is n.  0 stands for "not yet".
MaxCalls == 4
NewUUID_Fixed(made) == 1
NewUUID(made) == made + 1

IdleCaller == [pc |-> "idle", clientID |-> 0, posted |-> 0, dialled |-> 0]

InitClientID ==
    /\ limiter = NewUserLimiter(0)
    /\ call = NoCall
    /\ mon = InitMonIdle
    /\ req = InitReqIdle
    /\ wm = InitWmIdle
    /\ ctx = InitCtxIdle
    /\ acl = InitAclIdle
    /\ gen = [pc |-> "ids", made |-> 0, c |-> [r \in Reqs |-> IdleCaller]]

\* monitor := NewExecutionMonitor(c.wsURL, c.logger)
IdNewMonitor(r) ==
    /\ gen.pc = "ids"
    /\ gen.c[r].pc = "idle"
    /\ gen.made < MaxCalls
    /\ gen' = [gen EXCEPT !.made = @ + 1,
                          !.c[r] = [IdleCaller EXCEPT
                                       !.pc = "prepare",
                                       !.clientID = NewUUID(gen.made)]]
    /\ UNCHANGED <<limiter, call, mon, req, wm, ctx, acl>>

\* c.workflow.PrepareWorkflow(prompt)
IdPrepare(r) ==
    /\ gen.pc = "ids"
    /\ gen.c[r].pc = "prepare"
    /\ \E ok \in BOOLEAN :
         gen' = [gen EXCEPT !.c[r].pc = IF ok THEN "queue" ELSE "return"]
    /\ UNCHANGED <<limiter, call, mon, req, wm, ctx, acl>>

\* c.QueuePrompt(ctx, workflow, monitor.GetClientID()): the request body
\* carries client_id, whatever becomes of the request.
IdQueue(r) ==
    /\ gen.pc = "ids"
    /\ gen.c[r].pc = "queue"
    /\ \E ok \in BOOLEAN :
         gen' = [gen EXCEPT !.c[r].posted = gen.c[r].clientID,
                            !.c[r].pc = IF ok THEN "wait" ELSE "return"]
    /\ UNCHANGED <<limiter, call, mon, req, wm, ctx, acl>>

\* monitor.WaitForCompletion: the dial of wsURL?clientId=<m.clientID>.
IdDial(r) ==
    /\ gen.pc = "ids"
    /\ gen.c[r].pc = "wait"
    /\ gen' = [gen EXCEPT !.c[r].dialled = gen.c[r].clientID,
                          !.c[r].pc = "return"]
    /\ UNCHANGED <<limiter, call, mon, req, wm, ctx, acl>>

\* The rest of GenerateImage and its return.
IdReturn(r) ==
    /\ gen.pc = "ids"
    /\ gen.c[r].pc = "return"
    /\ gen' = [gen EXCEPT !.c[r] = IdleCaller]
    /\ UNCHANGED <<limiter, call, mon, req, wm, ctx, acl>>

NextClientID ==
    \/ \E r \in Reqs : IdNewMonitor(r)
    \/ \E r \in Reqs : IdPrepare(r)
    \/ \E r \in Reqs : IdQueue(r)
    \/ \E r \in Reqs : IdDial(r)
    \/ \E r \in Reqs : IdReturn(r)

SpecClientID == InitClientID /\ [][NextClientID]_vars

\* =============================================================== settings
\* The settings row of one user and concurrent handleSettingsCallback
\* handlers of that user's presses (the rows of different users do not meet).
\* A user without a row has the defaults of the configuration.
Settings(o, c) == [SendOriginal |-> o, SendCompressed |-> c]
NoRow == [SendOriginal |-> FALSE, SendCompressed |-> FALSE, absent |-> TRUE]

\* UserSettings.Validate: whether it returns nil.
Validate_Anything(s) == TRUE
Validate(s) == s.SendOriginal \/ s.SendCompressed

\* SQLiteStore.Get with the row found or not found.
Get(row, defaults) == IF row = NoRow THEN defaults ELSE row

\* switch action
Toggle(s, action) ==
    IF action = "toggle_original"
    THEN [s EXCEPT !.SendOriginal = ~@]
    ELSE [s EXCEPT !.SendCompressed = ~@]

IdleToggler == [pc |-> "idle", action |-> "none", s |-> Settings(FALSE, FALSE)]

InitSettings ==
    /\ limiter = NewUserLimiter(0)
    /\ call = NoCall
    /\ mon = InitMonIdle
    /\ req = InitReqIdle
    /\ gen = InitGenIdle
    /\ wm = InitWmIdle
    /\ ctx = InitCtxIdle
    /\ \E o, c \in BOOLEAN :
         acl = [op |-> "settings", defaults |-> Settings(o, c),
                row |-> NoRow,
                h |-> [r \in Reqs |-> IdleToggler]]

\* A settings callback arrives and h.settings.Get(userID) is called.
StGet(r) ==
    /\ acl.op = "settings"
    /\ acl.h[r].pc = "idle"
    /\ \E a \in {"toggle_original", "toggle_compressed"}, ok \in BOOLEAN :
         acl' = [acl EXCEPT !.h[r] =
                   IF ok
                   THEN [pc |-> "got", action |-> a,
                         s |-> Get(acl.row, acl.defaults)]
                   ELSE IdleToggler]
    /\ UNCHANGED <<limiter, call, mon, req, gen, wm, ctx>>

\* The toggle and the handler's Validate; settings that are not valid are
\* answered with "At least one format must be enabled".
StToggle(r) ==
    /\ acl.op = "settings"
    /\ acl.h[r].pc = "got"
    /\ LET t == Toggle(acl.h[r].s, acl.h[r].action) IN
         acl' = [acl EXCEPT !.h[r] =
                   IF Validate(t)
                   THEN [acl.h[r] EXCEPT !.pc = "save", !.s = t]
                   ELSE IdleToggler]
    /\ UNCHANGED <<limiter, call, mon, req, gen, wm, ctx>>

\* h.settings.Save(userSettings): Validate again, then the upsert of the
\* whole row; the edit of the message and the answer.
StSave(r) ==
    /\ acl.op = "settings"
    /\ acl.h[r].pc = "save"
    /\ \E ok \in BOOLEAN :
         acl' = IF ok /\ Validate(acl.h[r].s)
                THEN [acl EXCEPT !.row = acl.h[r].s, !.h[r] = IdleToggler]
                ELSE [acl EXCEPT !.h[r] = IdleToggler]
    /\ UNCHANGED <<limiter, call, mon, req, gen, wm, ctx>>

NextSettings ==
    \/ \E r \in Reqs : StGet(r)
    \/ \E r \in Reqs : StToggle(r)
    \/ \E r \in Reqs : StSave(r)

SpecSettings == InitSettings /\ [][NextSettings]_vars

\* =============================================================== shutdown
\* Bot.Run: its select loop, the updates that wait in the channel of
\* GetUpdatesChan, the handlers counted by activeRequests and the wait at
\* the end.  A select with several ready cases takes any of them.
MaxUpdates == 3

InitShutdown ==
    /\ limiter = NewUserLimiter(0)
    /\ call = NoCall
    /\ mon = InitMonIdle
    /\ req = InitReqIdle
    /\ gen = InitGenIdle
    /\ wm = InitWmIdle
    /\ acl = InitAclIdle
    /\ ctx = [op |-> "run", pc |-> "loop", cancelled |-> FALSE,
              arrived |-> 0, ready |-> 0, active |-> 0, late |-> 0,
              elapsed |-> FALSE, by |-> "none"]

\* main cancels the root context after the shutdown signal.
ShCancel ==
    /\ ctx.op = "run"
    /\ ~ctx.cancelled
    /\ ctx' = [ctx EXCEPT !.cancelled = TRUE]
    /\ UNCHANGED <<limiter, call, mon, req, gen, wm, acl>>

\* The polling goroutine of the library puts an update into the channel,
\* until StopReceivingUpdates.
ShArrive ==
    /\ ctx.op = "run"
    /\ ctx.pc = "loop"
    /\ ctx.arrived < MaxUpdates
    /\ ctx' = [ctx EXCEPT !.arrived = @ + 1, !.ready = @ + 1]
    /\ UNCHANGED <<limiter, call, mon, req, gen, wm, acl>>

\* case update, ok := <-updates: activeRequests.Add(1) and the goroutine
\* of the update.
ShTakeUpdate ==
    /\ ctx.op = "run"
    /\ ctx.pc = "loop"
    /\ ctx.ready > 0
    /\ ctx' = [ctx EXCEPT !.ready = @ - 1, !.active = @ + 1,
                          !.late = IF ctx.cancelled THEN @ + 1 ELSE @]
    /\ UNCHANGED <<limiter, call, mon, req, gen, wm, acl>>

\* case <-ctx.Done(): StopReceivingUpdates and the goroutine that waits
\* for activeRequests.
ShTakeDone ==
    /\ ctx.op = "run"
    /\ ctx.pc = "loop"
    /\ ctx.cancelled
    /\ ctx' = [ctx EXCEPT !.pc = "waiting"]
    /\ UNCHANGED <<limiter, call, mon, req, gen, wm, acl>>

\* HandleUpdate returns: the deferred activeRequests.Done().
ShHandlerDone ==
    /\ ctx.op = "run"
    /\ ctx.active > 0
    /\ ctx' = [ctx EXCEPT !.active = @ - 1]
    /\ UNCHANGED <<limiter, call, mon, req, gen, wm, acl>>

\* The 25 seconds of time.After pass.
ShElapse ==
    /\ ctx.op = "run"
    /\ ctx.pc = "waiting"
    /\ ~ctx.elapsed
    /\ ctx' = [ctx EXCEPT !.elapsed = TRUE]
    /\ UNCHANGED <<limiter, call, mon, req, gen, wm, acl>>

\* The second select: done is closed once activeRequests.Wait() returns,
\* the timer fires once its time has passed; Run returns ctx.Err().
ShReturn ==
    /\ ctx.op = "run"
    /\ ctx.pc = "waiting"
    /\ \/ ctx.active = 0 /\ ctx' = [ctx EXCEPT !.pc = "returned", !.by = "done"]
       \/ ctx.elapsed /\ ctx' = [ctx EXCEPT !.pc = "returned", !.by = "timer"]
    /\ UNCHANGED <<limiter, call, mon, req, gen, wm, acl>>

NextShutdown ==
    \/ ShCancel
    \/ ShArrive
    \/ ShTakeUpdate
    \/ ShTakeDone
    \/ ShHandlerDone
    \/ ShElapse
    \/ ShReturn

SpecShutdown == InitShutdown /\ [][NextShutdown]_vars

\* ==================================================================== job
\* One GenerateImage call together with the backend's job and the events the
\* backend pushes.  The backend sends an event to the connections that are
\* open under the caller's client ID when the event occurs; the connection
\* carries it to the read goroutine.  Requests and events that fail or are
\* delayed by the network set `fault`.
\*   pc        "queue" (in QueuePrompt), "dial" (WaitForCompletion called),
\*             "select", "history" (WaitForCompletion returned nil),
\*             "returned" (GenerateImage returned)
\*   rpc, pend, conn, tick, pong, idle   as in MonEntry
\*   job       the backend's job: "none", "running" or "finished"
\*   emitted   the backend emitted the completion event of the job
\*   events    events the backend emitted before the completion
\*   wire      frames sent to the connection and not yet read
\*   deadline  the caller's context carries a deadline
\*   ctxDone   ctx.Done() is closed
\*   ponged    the pong handler ran
\*   observed  the select loop received the completion event of the job
\*   via       what ended the call: "ctx", "errCh", "ping", "dial", "http"
\*             or "done"
MaxEvents == 1

CompletionFrame == Frame("executing", ObjData(AwaitedID, "null"))
NodeFrame == Frame("executing", ObjData(AwaitedID, "9"))

\* A select loop without the ctx.Done() case.
CtxCaseReady_Never(ctxDone) == FALSE

\* case <-ctx.Done() of the select loop is ready once the context is done.
CtxCaseReady(ctxDone) == ctxDone

JobEntry(deadline) ==
    [op |-> "job", pc |-> "queue", rpc |-> "none", pend |-> NoFrame,
     conn |-> "none", tick |-> FALSE, pong |-> "none", idle |-> 0,
     job |-> "none", emitted |-> FALSE, events |-> 0, wire |-> <<>>,
     deadline |-> deadline, ctxDone |-> FALSE, fault |-> FALSE,
     ponged |-> FALSE, observed |-> FALSE, via |-> "none"]

InitJob ==
    /\ limiter = NewUserLimiter(0)
    /\ call = NoCall
    /\ \E d \in BOOLEAN : mon = JobEntry(d)
    /\ req = InitReqIdle
    /\ gen = InitGenIdle
    /\ wm = InitWmIdle
    /\ ctx = InitCtxIdle
    /\ acl = InitAclIdle

\* The end of WaitForCompletion: the deferred pingTicker.Stop() and
\* conn.Close().
JobLeave(m, pc, via) ==
    [m EXCEPT !.pc = pc, !.via = via, !.conn = DeferredClose(@), !.tick = FALSE]

\* The caller cancels the context.
JobCancel ==
    /\ mon.op = "job"
    /\ mon.pc # "returned"
    /\ ~mon.ctxDone
    /\ mon' = [mon EXCEPT !.ctxDone = TRUE, !.fault = TRUE]
    /\ UNCHANGED <<limiter, call, req, gen, wm, ctx, acl>>

\* The deadline of the context passes.
JobDeadline ==
    /\ mon.op = "job"
    /\ mon.deadline
    /\ mon.pc # "returned"
    /\ ~mon.ctxDone
    /\ mon' = [mon EXCEPT !.ctxDone = TRUE]
    /\ UNCHANGED <<limiter, call, req, gen, wm, ctx, acl>>

\* The backend answers POST /prompt: it accepted the job and runs it, or the
\* request failed.
JobQueue ==
    /\ mon.op = "job"
    /\ mon.pc = "queue"
    /\ \/ mon' = [mon EXCEPT !.pc = "dial", !.job = "running"]
       \/ mon' = [mon EXCEPT !.pc = "returned", !.via = "http", !.fault = TRUE]
    /\ UNCHANGED <<limiter, call, req, gen, wm, ctx, acl>>

\* httpClient.Do of a request made with ctx returns once ctx is done.
JobRequestCtx ==
    /\ mon.op = "job"
    /\ mon.pc \in {"queue", "history"}
    /\ mon.ctxDone
    /\ mon' = [mon EXCEPT !.pc = "returned", !.via = "ctx"]
    /\ UNCHANGED <<limiter, call, req, gen, wm, ctx, acl>>

\* dialer.DialContext returns, within its handshake timeout; on success the
\* read goroutine starts.
JobDial ==
    /\ mon.op = "job"
    /\ mon.pc = "dial"
    /\ \/ /\ ~mon.ctxDone
          /\ mon' = [mon EXCEPT !.pc = "select", !.conn = "open", !.rpc = "read"]
       \/ mon' = [mon EXCEPT !.pc = "returned", !.via = "dial",
                             !.fault = ~mon.ctxDone]
    /\ UNCHANGED <<limiter, call, req, gen, wm, ctx, acl>>

\* The backend starts a node of the job and says so.
JobBackendEvent ==
    /\ mon.op = "job"
    /\ mon.job = "running"
    /\ mon.events < MaxEvents
    /\ mon' = [mon EXCEPT !.events = @ + 1,
                          !.wire = IF mon.conn = "open"
                                   THEN Append(@, NodeFrame) ELSE @]
    /\ UNCHANGED <<limiter, call, req, gen, wm, ctx, acl>>

\* The backend finishes the job and emits the completion event.
JobBackendFinish ==
    /\ mon.op = "job"
    /\ mon.job = "running"
    /\ mon' = [mon EXCEPT !.job = "finished", !.emitted = TRUE,
                          !.wire = IF mon.conn = "open"
                                   THEN Append(@, CompletionFrame) ELSE @]
    /\ UNCHANGED <<limiter, call, req, gen, wm, ctx, acl>>

\* A ticker period passes.
JobTick ==
    /\ mon.op = "job"
    /\ mon.pc = "select"
    /\ ~mon.tick
    /\ ~(mon.rpc = "read" /\ (mon.idle >= IdleLimit \/ mon.pong = "pong"
                               \/ mon.wire # <<>>))
    /\ mon' = [mon EXCEPT !.tick = TRUE,
                          !.idle = IF @ < IdleLimit THEN @ + 1 ELSE @]
    /\ UNCHANGED <<limiter, call, req, gen, wm, ctx, acl>>

\* case <-pingTicker.C
JobSelectPing ==
    /\ mon.op = "job"
    /\ mon.pc = "select"
    /\ mon.tick
    /\ \/ mon' = [mon EXCEPT !.tick = FALSE,
                             !.pong = IF @ = "none" THEN "ping" ELSE @]
       \/ mon' = [JobLeave(mon, "returned", "ping") EXCEPT !.fault = TRUE]
    /\ UNCHANGED <<limiter, call, req, gen, wm, ctx, acl>>

\* The backend answers the ping.
JobBackendPong ==
    /\ mon.op = "job"
    /\ mon.conn = "open"
    /\ mon.pong = "ping"
    /\ mon' = [mon EXCEPT !.pong = "pong"]
    /\ UNCHANGED <<limiter, call, req, gen, wm, ctx, acl>>

\* conn.ReadMessage meets the pong and runs the pong handler.
JobReaderPong ==
    /\ mon.op = "job"
    /\ mon.rpc = "read"
    /\ mon.conn = "open"
    /\ mon.pong = "pong"
    /\ mon.idle < IdleLimit
    /\ mon' = [mon EXCEPT !.pong = "none", !.idle = PongHandler(@),
                          !.ponged = TRUE]
    /\ UNCHANGED <<limiter, call, req, gen, wm, ctx, acl>>

\* conn.ReadMessage returns a frame, or an error: the read deadline has
\* passed, or the connection was closed by the deferred conn.Close().
JobRead ==
    /\ mon.op = "job"
    /\ mon.rpc = "read"
    /\ \/ /\ mon.conn = "open"
          /\ mon.idle < IdleLimit
          /\ mon.wire # <<>>
          /\ mon' = [mon EXCEPT !.rpc = "sendMsg", !.pend = Head(mon.wire),
                                !.wire = Tail(@)]
       \/ /\ mon.conn = "open"
          /\ mon.idle >= IdleLimit
          /\ mon' = [mon EXCEPT !.rpc = "sendErr", !.fault = TRUE]
       \/ /\ mon.conn = "closed"
          /\ mon' = [mon EXCEPT !.rpc = "sendErr"]
    /\ UNCHANGED <<limiter, call, req, gen, wm, ctx, acl>>

\* conn.ReadMessage fails because the network or the backend did.
JobReadFault ==
    /\ mon.op = "job"
    /\ mon.rpc = "read"
    /\ mon.conn = "open"
    /\ mon' = [mon EXCEPT !.rpc = "sendErr", !.fault = TRUE]
    /\ UNCHANGED <<limiter, call, req, gen, wm, ctx, acl>>

\* case <-ctx.Done()
JobSelectCtx ==
    /\ mon.op = "job"
    /\ mon.pc = "select"
    /\ CtxCaseReady(mon.ctxDone)
    /\ mon' = JobLeave(mon, "returned", "ctx")
    /\ UNCHANGED <<limiter, call, req, gen, wm, ctx, acl>>

\* case err := <-errCh
JobSelectErr ==
    /\ mon.op = "job"
    /\ mon.pc = "select"
    /\ mon.rpc = "sendErr"
    /\ mon' = [JobLeave(mon, "returned", "errCh") EXCEPT !.rpc = "exited"]
    /\ UNCHANGED <<limiter, call, req, gen, wm, ctx, acl>>

\* case msg := <-msgCh
JobSelectMsg ==
    /\ mon.op = "job"
    /\ mon.pc = "select"
    /\ mon.rpc = "sendMsg"
    /\ LET r == HandleMessage(mon.pend, AwaitedID)
           m == [mon EXCEPT !.rpc = "read", !.pend = NoFrame, !.idle = 0] IN
       mon' = IF r = Continue THEN m
              ELSE IF r.kind = "completed"
              THEN [JobLeave(m, "history", "none") EXCEPT !.observed = TRUE]
              ELSE JobLeave(m, "returned", "msgCh")
    /\ UNCHANGED <<limiter, call, req, gen, wm, ctx, acl>>

\* GetHistory and GetImage get their answers and GenerateImage returns.
JobFetch ==
    /\ mon.op = "job"
    /\ mon.pc = "history"
    /\ \/ mon' = [mon EXCEPT !.pc = "returned", !.via = "done"]
       \/ mon' = [mon EXCEPT !.pc = "returned", !.via = "http", !.fault = TRUE]
    /\ UNCHANGED <<limiter, call, req, gen, wm, ctx, acl>>

NextJob ==
    \/ JobCancel
    \/ JobDeadline
    \/ JobQueue
    \/ JobRequestCtx
    \/ JobDial
    \/ JobBackendEvent
    \/ JobBackendFinish
    \/ JobTick
    \/ JobSelectPing
    \/ JobBackendPong
    \/ JobReaderPong
    \/ JobRead
    \/ JobReadFault
    \/ JobSelectCtx
    \/ JobSelectErr
    \/ JobSelectMsg
    \/ JobFetch

\* The goroutines of the call are scheduled, timers fire, the deadline of a
\* context passes, and the backend answers pings.  Nothing obliges the
\* backend to answer a request, to finish the job or to emit an event.
FairJob ==
    /\ WF_vars(JobDeadline)
    /\ WF_vars(JobRequestCtx)
    /\ WF_vars(JobDial)
    /\ WF_vars(JobTick)
    /\ WF_vars(JobSelectPing)
    /\ WF_vars(JobBackendPong)
    /\ WF_vars(JobReaderPong)
    /\ WF_vars(JobRead)
    /\ WF_vars(JobSelectCtx)
    /\ WF_vars(JobSelectErr)
    /\ WF_vars(JobSelectMsg)

SpecJob == InitJob /\ [][NextJob]_vars /\ FairJob

\* ========================================================= handler claims
Running(r) == req[r].pc \notin {"idle", "done"}
InGenerateImage(r) == req[r].pc \in StageSet

\* C4: a slot is held only by a running handler that acquired it, so a
\* handler that acquired a slot has released it when it is done, whatever
\* path it took, and with no prompt handler running ActiveCount() = 0.
C4_ReleaseOnEveryPath ==
    /\ \A u \in limiter.activeUsers :
         \E r \in Reqs : Running(r) /\ req[r].user = u /\ req[r].acq = "ok"
    /\ (\A r \in Reqs : ~Running(r)) =>
         (ActiveCount(limiter) = 0 /\ limiter.activeUsers = {})

\* C4 witness: every handler has returned, one through the image-processing
\* failure and one through a failed generation, and no slot is held.
C4_Witness ==
    /\ \A r \in Reqs : req[r].pc = "done"
    /\ \E r \in Reqs : req[r].sent = "processError" /\ req[r].acq = "ok"
    /\ \E r \in Reqs : req[r].sent = "error" /\ req[r].acq = "ok"
    /\ ActiveCount(limiter) = 0

\* C5: no two handlers of the same user are inside GenerateImage at once,
\* private and group prompts alike, and a user whose generation is in flight
\* keeps the slot (a rejected handler does not release it).
C5_OneGenerationPerUser ==
    /\ \A r1, r2 \in Reqs :
         (r1 # r2 /\ InGenerateImage(r1) /\ InGenerateImage(r2))
            => req[r1].user # req[r2].user
    /\ \A r \in Reqs :
         (req[r].pc \in StageSet \cup {"status", "process", "deliver", "failed"})
            => (IsUserActive(limiter, req[r].user) /\ ActiveCount(limiter) >= 1)

\* C5 witness: a private prompt of a user is inside GenerateImage while a
\* group prompt of the same user has been rejected and has returned.
C5_Witness ==
    \E r1, r2 \in Reqs :
        /\ InGenerateImage(r1) /\ req[r1].kind = "private"
        /\ req[r2].pc = "done" /\ req[r2].sent = "inProgress"
        /\ IsUserActive(limiter, req[r1].user)

\* C6: a handler whose TryAcquire failed never runs a step of GenerateImage
\* and is never resumed: it only sends the generation-in-progress message
\* and returns.
C6_RejectedNeverRuns ==
    \A r \in Reqs :
        req[r].acq = "refused" =>
            /\ req[r].pc \in {"rejected", "done"}
            /\ req[r].ran = <<>>
            /\ (req[r].pc = "done" => req[r].sent = "inProgress")

\* C6 witness: a rejected handler has returned after the slot it was refused
\* for became free again.
C6_Witness ==
    \E r \in Reqs :
        /\ req[r].pc = "done"
        /\ req[r].acq = "refused"
        /\ req[r].sent = "inProgress"
        /\ limiter.activeUsers = {}

\* C27: a request runs TryAcquire, PrepareWorkflow, QueuePrompt,
\* WaitForCompletion, GetHistory, GetImage and Release in this order: a step
\* of GenerateImage is running only while the slot is held and after every
\* earlier step ran once and succeeded, a failed step is the last one that
\* ran, and the slot is given back only by the step that ends the handler.
C27_StagesInOrder ==
    /\ [](\A r \in Reqs :
            /\ req[r].pc \in StageSet =>
                  /\ req[r].acq = "ok"
                  /\ req[r].user \in limiter.activeUsers
                  /\ req[r].ran = SubSeq(Stages, 1, StageIndex(req[r].pc) - 1)
            /\ req[r].pc \in {"process", "deliver"} =>
                  /\ req[r].ran = Stages
                  /\ req[r].user \in limiter.activeUsers
            /\ (req[r].pc = "failed" /\ req[r].exit \in StageSet) =>
                  /\ req[r].ran = SubSeq(Stages, 1, StageIndex(req[r].exit))
                  /\ req[r].user \in limiter.activeUsers)
    /\ [][\A u \in limiter.activeUsers \ limiter'.activeUsers :
            \E r \in Reqs : /\ req[r].user = u
                            /\ req[r].pc \in {"failed", "deliver"}
                            /\ req'[r].pc = "done"]_vars

\* C27 witness: WaitForCompletion failed for a request after PrepareWorkflow
\* and QueuePrompt succeeded; no later step ran and the slot is still held.
C27_Witness ==
    \E r \in Reqs :
        /\ req[r].pc = "failed"
        /\ req[r].exit = "wait"
        /\ req[r].ran = <<"prepare", "queue", "wait">>
        /\ req[r].user \in limiter.activeUsers

\* ----------------------------------------------------------------------
\* C21: once the context of a request that is under way is done, the
\* request returns in the end, whichever stage it is in, and holds no slot
\* of the limiter afterwards; once every request that has not returned has a
\* context that is done, ActiveCount() becomes 0.
C21_CancelUnwinds ==
    /\ \A r \in Reqs :
         (ctx[r] /\ Running(r)) ~> (req[r].pc = "done" /\ ~req[r].deferred)
    /\ (\A r \in Reqs : ctx[r] \/ req[r].pc = "done")
          ~> (ActiveCount(limiter) = 0)

\* A request whose context was done while it waited in WaitForCompletion has
\* returned from that stage with an error and still holds its slot.
C21_Witness ==
    \E r \in Reqs :
        /\ ctx[r]
        /\ req[r].pc = "failed"
        /\ req[r].exit = "wait"
        /\ req[r].user \in limiter.activeUsers

\* ========================================================= limiter claims
\* C1: TryAcquire(A) returns false whenever A already holds a slot, a failed
\* call leaves the active set and the counter unchanged, and it returns true
\* only when A held no slot and the global cap was not reached.
C1_TryAcquireExclusive ==
    call.op = "TryAcquire" =>
        /\ (call.user \in call.pre.activeUsers => call.ret = FALSE)
        /\ (call.ret = FALSE => limiter = call.pre)
        /\ (call.ret = TRUE =>
                /\ call.user \notin call.pre.activeUsers
                /\ ~(call.pre.maxGlobal > 0
                        /\ call.pre.globalCount >= call.pre.maxGlobal)
                /\ limiter.activeUsers = call.pre.activeUsers \cup {call.user}
                /\ limiter.globalCount = call.pre.globalCount + 1)

\* C1 witness: a TryAcquire by an actor that already held a slot was refused.
C1_Witness ==
    /\ call.op = "TryAcquire"
    /\ call.user \in call.pre.activeUsers
    /\ call.ret = FALSE
    /\ limiter = call.pre

\* C2: ActiveCount() is never negative, never exceeds a positive global cap,
\* and with cap = 0 an actor holding no slot is always admitted (no bound on
\* the number of distinct holders).
C2_ActiveCountBounds ==
    /\ ActiveCount(limiter) >= 0
    /\ (limiter.maxGlobal > 0 => ActiveCount(limiter) <= limiter.maxGlobal)
    /\ (call.op = "TryAcquire" /\ call.pre.maxGlobal = 0
            /\ call.user \notin call.pre.activeUsers => call.ret = TRUE)

\* C2 witness: the cap is positive and reached, and an actor holding no slot
\* has just been refused because of it.
C2_Witness ==
    /\ limiter.maxGlobal > 0
    /\ ActiveCount(limiter) = limiter.maxGlobal
    /\ call.op = "TryAcquire"
    /\ call.user \notin call.pre.activeUsers
    /\ call.ret = FALSE

\* C3: Release(A) removes A and decrements the counter by exactly one when A
\* holds a slot, changes nothing when A holds none, never touches another
\* actor's slot, and a second Release(A) leaves the state of the first.
C3_ReleaseIdempotent ==
    /\ call.op = "Release" =>
        /\ (call.user \in call.pre.activeUsers =>
                /\ limiter.activeUsers = call.pre.activeUsers \ {call.user}
                /\ limiter.globalCount = call.pre.globalCount - 1)
        /\ (call.user \notin call.pre.activeUsers => limiter = call.pre)
        /\ \A v \in Users \ {call.user} :
                IsUserActive(limiter, v) <=> IsUserActive(call.pre, v)
    /\ \A u \in Users :
        Release(Release(limiter, u), u) = Release(limiter, u)

\* C3 witness: a Release of an actor holding no slot, made while another
\* actor holds one, left the limiter as it was.
C3_Witness ==
    /\ call.op = "Release"
    /\ call.user \notin call.pre.activeUsers
    /\ call.pre.activeUsers # {}
    /\ limiter = call.pre

\* ----------------------------------------------------------------------
\* C31: whenever a method of the limiter has taken the lock, globalCount is
\* the number of users in activeUsers and the users in activeUsers are those
\* who have acquired and not released; ActiveCount and IsUserActive return
\* that number and that membership.
C31_CounterMatchesSet ==
    call.op = "locked" =>
        /\ \A t \in Reqs :
             call.th[t].pc = "check" =>
               /\ limiter.globalCount = Cardinality(limiter.activeUsers)
               /\ limiter.activeUsers = call.held
        /\ \A t \in Reqs :
             call.th[t].pc = "unlock" =>
               /\ call.th[t].op = "ActiveCount" =>
                    call.th[t].n = Cardinality(call.held)
               /\ call.th[t].op = "IsUserActive" =>
                    (call.th[t].ret <=> call.th[t].user \in call.held)
        /\ call.mu = 0 =>
               limiter.globalCount = Cardinality(limiter.activeUsers)

\* IsUserActive is about to return true for a user while another goroutine
\* waits for the lock to release that user.
C31_Witness ==
    /\ call.op = "locked"
    /\ \E t, s \in Reqs :
         /\ call.th[t].pc = "unlock"
         /\ call.th[t].op = "IsUserActive"
         /\ call.th[t].ret
         /\ call.th[s].pc = "lock"
         /\ call.th[s].op = "Release"
         /\ call.th[s].user = call.th[t].user

\* ========================================================= monitor claims
\* The message last taken from msgCh is an executing event whose payload
\* decodes, with the given correlation and node properties.
LastIsExecuting == mon.last.type = "executing" /\ mon.last.data.kind = "obj"
EndedByLast == mon.mpc = "returned" /\ mon.result.via = "msgCh"

\* C7: an executing event for another prompt_id, or with a non-null node,
\* never ends WaitForCompletion; an executing event ends it only with
\* prompt_id = promptID and a null node, and success is returned only on
\* such an event.
C7_OnlyCorrelatedCompletion ==
    /\ (LastIsExecuting /\ EndedByLast) =>
            /\ mon.last.data.prompt_id = mon.promptID
            /\ mon.last.data.node \in {"absent", "null"}
    /\ (mon.last.type = "executing" /\ mon.last.data.kind # "obj") => ~EndedByLast
    /\ mon.result.kind = "completed" =>
            /\ EndedByLast
            /\ LastIsExecuting
            /\ mon.last.data.prompt_id = mon.promptID
            /\ mon.last.data.node \in {"absent", "null"}

\* C7 witness: the completion event of another job (null node, other
\* prompt_id) was taken from msgCh and the call is still streaming.
C7_Witness ==
    /\ LastIsExecuting
    /\ mon.last.data.prompt_id = OtherID
    /\ mon.last.data.node = "null"
    /\ mon.mpc = "select"
    /\ mon.nread >= 2

\* C8 (as claimed): an executing event for the awaited prompt_id whose node
\* is absent, null or the empty string makes WaitForCompletion return
\* success.
C8_NullOrEmptyNodeCompletes ==
    (/\ LastIsExecuting
     /\ mon.last.data.prompt_id = mon.promptID
     /\ mon.last.data.node \in {"absent", "null", ""})
        => (mon.mpc = "returned" /\ mon.result.kind = "completed")

\* C8 (amended): an executing event for the awaited prompt_id whose node is
\* absent or null makes WaitForCompletion return success; one whose node is
\* the empty string does not end the call.
C8_NullNodeCompletes ==
    /\ (/\ LastIsExecuting
        /\ mon.last.data.prompt_id = mon.promptID
        /\ mon.last.data.node \in {"absent", "null"})
            => (mon.mpc = "returned" /\ mon.result.kind = "completed")
    /\ (/\ LastIsExecuting
        /\ mon.last.data.node = "")
            => ~EndedByLast

\* C8 witness: the completion event with "node": null was taken from msgCh
\* and the call returned success.
C8_Witness ==
    /\ LastIsExecuting
    /\ mon.last.data.prompt_id = mon.promptID
    /\ mon.last.data.node = "null"
    /\ mon.mpc = "returned"
    /\ mon.result.kind = "completed"

\* C9: an execution_error frame taken from msgCh ends WaitForCompletion with
\* a failure whose text carries the frame's data verbatim, whatever job the
\* data refers to, and never with success.
C9_ExecutionErrorFails ==
    mon.last.type = "execution_error" =>
        /\ mon.mpc = "returned"
        /\ mon.result.kind = "execErr"
        /\ mon.result.via = "msgCh"
        /\ mon.result.err = <<"comfyui execution error: ", mon.last.data>>

\* C9 witness: an execution_error frame that names another job ended the
\* call with a failure carrying that payload.
C9_Witness ==
    /\ mon.last.type = "execution_error"
    /\ mon.last.data = ObjData(OtherID, "9")
    /\ mon.result.kind = "execErr"
    /\ mon.result.err[2] = ObjData(OtherID, "9")

\* C10: once the context was cancelled while the call was streaming, the call
\* never returns one of the failure outcomes (read error, unexpected close,
\* ping failure, execution error).
C10_CancelNeverFailed ==
    (mon.cancelledAt = "select" /\ mon.mpc = "returned")
        => mon.result.kind \notin {"readErr", "closedErr", "pingErr", "execErr", "dialErr"}

\* The outcomes the code returns for a failed call, and for a cancelled one.
FailureKinds == {"readErr", "closedErr", "pingErr", "execErr", "dialErr"}
TimedOut ==
    /\ mon.mpc = "returned"
    /\ mon.result.via = "errCh"
    /\ mon.result.err = <<"websocket read: ", "i/o timeout">>

\* C12: a call that ended because the read deadline passed (no frame and no
\* pong within the idle window) returns an outcome of a kind of its own,
\* distinct from the failure outcomes and from cancellation, with the
\* connection closed.
C12_IdleTimeoutOwnKind ==
    TimedOut => /\ mon.result.kind \notin FailureKinds \cup {"cancelled"}
                /\ mon.conn = "closed"

\* C13: while no ticker period has gone by with a ping unanswered, the read
\* goroutine never meets the read deadline and the call never returns its
\* timeout error, whether or not event frames arrive.
C13_AnsweredPingsNoTimeout ==
    ~mon.unanswered =>
        /\ mon.perr # "i/o timeout"
        /\ ~TimedOut
        /\ (mon.rpc = "read" /\ mon.conn = "open") => mon.idle < IdleLimit

\* C13 witness: no event frame was ever read, every ping so far was answered,
\* a pong already moved the deadline once and the answer to a later ping is
\* waiting, one period after that.
C13_Witness ==
    /\ mon.mpc = "select"
    /\ mon.nread = 0
    /\ ~mon.unanswered
    /\ mon.resetBy = "pong"
    /\ mon.pong = "pong"
    /\ mon.idle = 1

\* C14: a call that has not returned has no outcome; a call that returned has
\* exactly one outcome, of a terminal kind, and the connection it opened is
\* closed; once returned, neither the outcome nor the closed connection
\* changes again.
C14_OneFinalOutcome ==
    /\ [](/\ mon.mpc \in {"dial", "select"} => mon.result = NoResult
          /\ mon.mpc = "returned" =>
                /\ mon.result.kind \in FailureKinds \cup {"completed", "cancelled"}
                /\ mon.conn # "open"
                /\ mon.result.kind # "dialErr" => mon.conn = "closed")
    /\ [][mon.mpc = "returned" =>
            /\ mon'.mpc = "returned"
            /\ mon'.result = mon.result
            /\ mon'.conn = mon.conn]_vars

\* C14 witness: the call returned through the select loop after streaming
\* frames, the connection is closed, and the read goroutine is still running.
C14_Witness ==
    /\ mon.mpc = "returned"
    /\ mon.result.kind \in {"completed", "pingErr", "cancelled"}
    /\ mon.nread >= 2
    /\ mon.conn = "closed"
    /\ mon.rpc \in {"read", "sendMsg", "sendErr"}

\* C28: the read deadline is moved by every frame conn.ReadMessage returns,
\* decodable or not, so the read goroutine never meets the deadline when a
\* frame has arrived since the deadline was last set.
C28_AnyFrameResetsDeadline ==
    mon.perr = "i/o timeout" => ~mon.stale

\* The step that takes a progress message from msgCh.
TakesProgress ==
    /\ mon.mpc = "select"
    /\ mon.rpc = "sendMsg"
    /\ mon.pend.type = "progress"
    /\ mon'.rpc = "read"

\* C29: taking a progress message leaves the call streaming with no outcome
\* and the connection as it was; the callback is invoked once if the message
\* decodes, names the awaited prompt_id and a callback was supplied, and not
\* at all otherwise; no other step invokes the callback.
C29_ProgressKeepsStreaming ==
    /\ [][TakesProgress =>
            /\ mon'.mpc = "select"
            /\ mon'.result = NoResult
            /\ mon'.conn = mon.conn
            /\ mon'.cbCalls = mon.cbCalls +
                    (IF /\ mon.pend.data.kind = "obj"
                        /\ mon.pend.data.prompt_id = mon.promptID
                        /\ mon.hasCb
                     THEN 1 ELSE 0)]_vars
    /\ [][~TakesProgress => mon'.cbCalls = mon.cbCalls]_vars

\* C29 witness: with a callback supplied, a progress message of another job
\* was taken after one of the awaited job; only the latter was forwarded and
\* the call is still streaming.
C29_Witness ==
    /\ mon.hasCb
    /\ mon.last = Frame("progress", ObjData(OtherID, "absent"))
    /\ mon.cbCalls = 1
    /\ mon.nread = 2
    /\ mon.mpc = "select"

\* ====================================================== generation claims
GenReturned == gen.pc \in {"returned", "handled"}
Cancelled(chain) == \E i \in DOMAIN chain : chain[i] = CtxCanceled

\* C11: when GenerateImage ended because the context was cancelled, the
\* prompt handler sends the user no error message.
C11_CancelledNotReported ==
    (gen.pc = "handled" /\ Cancelled(gen.err)) => gen.sent = NoMessage

\* C15: every error GenerateImage returns has a UserError of the taxonomy in
\* its chain, so that the text for the user follows from the kind.
C15_ErrorsClassified ==
    (GenReturned /\ gen.err # Nil) => ErrorsAs(gen.err) \in UserErrors

\* C26: the websocket is connected before the workflow is POSTed to /prompt
\* and is closed only after the image data was retrieved.
C26_ChannelSpansRequest ==
    /\ gen.qresp # NoResponse => gen.ws # "none"
    /\ gen.ws = "closed" => gen.data # -1

\* The first image of the first node, in the order the backend returned the
\* nodes, that has an image.
ReturnedOrderPick(list) ==
    LET hits == {i \in DOMAIN list : list[i].images > 0} IN
    IF hits = {} THEN NoPick
    ELSE [node |-> list[CHOOSE i \in hits : \A k \in hits : i <= k].node,
          index |-> 1]

\* C16: the image chosen from a history entry is the first image of the
\* first node, in the order returned, that has an image; so it is the same
\* for the same response.
C16_FirstInReturnedOrder ==
    (gen.resolved /\ HasEntry(gen.hist, gen.handle)) =>
        gen.pick = ReturnedOrderPick(gen.hist.outputs)

NoOutput(h, promptID) ==
    \/ ~HasEntry(h, promptID)
    \/ \A i \in DOMAIN h.outputs : h.outputs[i].images = 0

\* C17: when the history has no entry for the handle, or an entry without
\* any image, GenerateImage returns one of its two no-output errors, has
\* chosen no image, made no download and returned no data.
C17_NoOutputFails ==
    (gen.resolved /\ NoOutput(gen.hist, gen.handle)) =>
        /\ GenReturned
        /\ gen.err \in {<<"prompt not found in history">>,
                        <<"no output image found">>}
        /\ gen.pick = NoPick
        /\ gen.downloads = 0
        /\ gen.data = -1

\* C17 witness: the entry exists and lists two nodes, neither with an image,
\* and the call failed with the no-image error.
C17_Witness ==
    /\ gen.resolved
    /\ gen.handle = AwaitedID
    /\ gen.hist.own
    /\ Len(gen.hist.outputs) = 2
    /\ \A i \in DOMAIN gen.hist.outputs : gen.hist.outputs[i].images = 0
    /\ gen.err = <<"no output image found">>
    /\ gen.pc = "handled"

ReportsError(resp) ==
    \/ resp.status # StatusOK
    \/ resp.json /\ (resp.error # "" \/ resp.node_errors # {})

\* C20: when the /prompt response has a non-200 status or reports an error
\* or per-node errors in its body, QueuePrompt returns no handle but an
\* error that carries the per-node errors of the body.
C20_RejectionOnReportedError ==
    (gen.qresp # NoResponse /\ ReportsError(gen.qresp)) =>
        /\ gen.handle = NoHandle
        /\ gen.err # Nil
        /\ gen.details = IF gen.qresp.json THEN gen.qresp.node_errors ELSE {}

\* ======================================================== workflow claims
\* The document that holds the literal prompt where the template has the
\* placeholder, for the two templates that can be loaded.
Substituted(template, prompt) ==
    IF template = FileBytes("plain")
    THEN << <<(<<"t">>), prompt>> >>
    ELSE << <<(<<"t">>), <<Letter>> \o prompt \o <<NL>> >>,
            <<(<<"s">>), prompt>> >>

\* C18: PrepareWorkflow on a loaded template, for a prompt built from
\* quotes, backslashes, newlines, control characters, letters and the
\* placeholder itself, returns no error and the document whose fields hold
\* the literal prompt text where the template had the placeholder.
C18_PrepareRoundTrip ==
    wm.op = "prepare" =>
        /\ wm.err = Nil
        /\ wm.workflow = Substituted(wm.template, wm.prompt)

\* C18 witness: a prompt made of a backslash, the placeholder and a quote was
\* substituted into the template with two placeholders.
C18_Witness ==
    /\ wm.op = "prepare"
    /\ wm.template = FileBytes("framed")
    /\ wm.prompt = <<BS>> \o PromptPlaceholder \o <<DQ>>
    /\ wm.err = Nil
    /\ Len(wm.workflow) = 2

ValidTemplate(t) == Unmarshal(t).ok /\ Contains(t, PromptPlaceholder)

\* C19: once the manager exists its template is valid JSON containing the
\* placeholder, and a Load or Reload that meets an unreadable file, a file
\* that is not JSON or a file without the placeholder returns an error and
\* leaves the template as it was.
C19_FailedReloadKeepsTemplate ==
    /\ [](wm.op # "none" => ValidTemplate(wm.template))
    /\ [][(wm'.op \in {"load", "reload"} /\ wm'.file \in {"gone", "broken", "bare", "fixed"})
            => (wm'.err # Nil /\ wm'.template = wm.template)]_vars

\* C19 witness: a Reload met a JSON file without the placeholder, returned
\* an error, and the template loaded before is still in place.
C19_Witness ==
    /\ wm.op = "reload"
    /\ wm.file = "fixed"
    /\ wm.err # Nil
    /\ wm.template = FileBytes("framed")
    /\ wm.prev = wm.template

\* ----------------------------------------------------------------------
\* C30: while Load and PrepareWorkflow calls interleave, the bytes that a
\* PrepareWorkflow call has copied, and substitutes into, are one complete
\* version of the template: the one that was current while it held the read
\* lock.
C30_CopiesOneVersion ==
    wm.op = "reload" =>
        \A p \in Reqs :
            /\ wm.pr[p].pc = "copied" => wm.pr[p].copy = wm.template
            /\ wm.pr[p].pc \in {"copied", "unlocked"} =>
                 \E v \in Versions : wm.pr[p].copy = Buffer(v)

\* Two calls have finished their copies, one holds the bytes that a Load
\* has replaced since, the other the bytes that are current, while a Load
\* with yet other work waits for the lock or holds it.
C30_Witness ==
    /\ wm.op = "reload"
    /\ \E p, q \in Reqs :
         /\ wm.pr[p].pc = "unlocked"
         /\ wm.pr[p].copy # wm.template
         /\ wm.pr[q].pc = "copied"
    /\ \E l \in Loaders : wm.ld[l].pc = "read"

\* ========================================================== access claims
\* What HandleUpdate did with the update whose handler has not returned yet.
HandledAs(routes) == acl.op = "serve" /\ acl.last.kind \in routes

\* ----------------------------------------------------------------------
\* C22: an update reaches TryAcquire and GenerateImage only if it passed
\* CheckAccess: in a group chat the group is approved, in a private chat
\* the sender is in the static list, is the admin or is approved.
C22_OnlyAllowedGenerate ==
    HandledAs({"generate"}) =>
        IF acl.last.chat \in Groups
        THEN acl.store = "ok" /\ acl.last.chat \in acl.groups
        ELSE \/ acl.last.from \in acl.static
             \/ acl.admin # NoAdmin /\ acl.last.from = acl.admin
             \/ acl.store = "ok" /\ acl.last.from \in acl.approved

\* A generation for a user whom the admin approved, in the private chat.
C22_Witness ==
    /\ HandledAs({"generate"})
    /\ acl.last.chat = acl.last.from
    /\ acl.last.from \notin acl.static
    /\ acl.last.from # acl.admin
    /\ acl.last.from \in acl.approved

\* ----------------------------------------------------------------------
\* C23: a user of the static list and the admin stay allowed whatever is
\* revoked, and a /revoke takes the access only of the user it names, who
\* was allowed by approval alone.
C23_StaticNotRevocable ==
    [][/\ \A u \in Actors :
            (u \in acl.static \/ IsAdmin(acl, u)) => IsAllowed(acl', u)
       /\ acl'.last.kind = "revoked" =>
            \A u \in Actors :
                (IsAllowed(acl, u) /\ ~IsAllowed(acl', u)) =>
                    /\ u = acl'.last.arg
                    /\ u \in acl.approved
                    /\ u \notin acl.static
                    /\ ~IsAdmin(acl, u)]_vars

\* The admin's /revoke of a user of the static list was carried out and the
\* user is still allowed.
C23_Witness ==
    /\ HandledAs({"revoked"})
    /\ acl.last.arg \in acl.static
    /\ acl.last.arg # acl.admin
    /\ IsAllowed(acl, acl.last.arg)

\* ----------------------------------------------------------------------
\* C24: the approve handler puts the user of a pending request into the
\* approved store, and when it tells the admin that the user is approved the
\* pending request is gone; a rejection removes the pending request and
\* leaves the approved store alone; a press for a request that is not
\* pending changes nothing.
C24_ApproveRejectSettle ==
    [][(acl.op = "serve" /\ acl.last = NoUpdate) =>
         /\ (acl.cb.pc = "found" /\ acl'.cb.pc = "added") =>
              acl.cb.user \in acl'.approved
         /\ acl'.last.kind = "adminCallback" =>
              LET l == acl'.last IN
              /\ l.answer = "User approved" => acl'.pending[l.user] = "none"
              /\ l.answer = "User rejected" =>
                   /\ acl'.pending[l.user] = "none"
                   /\ acl'.approved = acl.approved
              /\ l.answer = "Request not found or already processed" =>
                   /\ acl'.pending = acl.pending
                   /\ acl'.approved = acl.approved]_vars

\* ----------------------------------------------------------------------
\* C25: in a group no message that is a command starts a generation or
\* runs a command handler.
C25_GroupCommandsIgnored ==
    (HandledAs({"generate", "tooShort", "command", "revoked", "adminOnly",
                "notConfigured", "revokeFailed"})
       /\ acl.last.chat \in Groups)
        => ~IsCommand(MsgEntities(acl.last.form))

\* ========================================================= further claims
\* ----------------------------------------------------------------------
\* C32: the client_id a GenerateImage call posts and the clientId it dials
\* with are the id of the monitor it made, and two calls that are under way
\* at the same time have different ids.
C32_OneClientIDPerCall ==
    gen.pc = "ids" =>
        /\ \A r \in Reqs :
             /\ gen.c[r].posted \in {0, gen.c[r].clientID}
             /\ gen.c[r].dialled \in {0, gen.c[r].posted}
        /\ \A r, s \in Reqs :
             (r # s /\ gen.c[r].pc # "idle" /\ gen.c[s].pc # "idle") =>
                 gen.c[r].clientID # gen.c[s].clientID

\* Two calls are under way; one has dialled with the id it posted.
C32_Witness ==
    /\ gen.pc = "ids"
    /\ \E r, s \in Reqs :
         /\ r # s
         /\ gen.c[r].dialled # 0
         /\ gen.c[r].dialled = gen.c[r].posted
         /\ gen.c[s].posted # 0

\* ----------------------------------------------------------------------
\* C33: the stored row of a user has SendOriginal or SendCompressed enabled,
\* however the toggle handlers interleave, and a handler whose toggle would
\* disable both ends at its validation and leaves the row as it was.
C33_AtLeastOneFormat ==
    /\ [](acl.op = "settings" =>
            (acl.row # NoRow =>
                acl.row.SendOriginal \/ acl.row.SendCompressed))
    /\ [][\A r \in Reqs :
            (/\ acl.h[r].pc = "got"
             /\ acl'.h[r] # acl.h[r]
             /\ LET t == Toggle(acl.h[r].s, acl.h[r].action)
                IN  ~t.SendOriginal /\ ~t.SendCompressed)
                => (acl'.row = acl.row /\ acl'.h[r].pc = "idle")]_vars

\* A handler is about to save a row while the stored row, which another
\* handler has written since the first one read it, differs in both formats.
C33_Witness ==
    /\ acl.op = "settings"
    /\ \E r \in Reqs :
         /\ acl.h[r].pc = "save"
         /\ acl.row # NoRow
         /\ acl.row.SendOriginal # acl.h[r].s.SendOriginal
         /\ acl.row.SendCompressed # acl.h[r].s.SendCompressed


\* ----------------------------------------------------------------------
\* C34: after the context of Run is cancelled no handler is started, and
\* Run returns only when no handler is under way or the 25 seconds have
\* passed.
C34_GracefulShutdown ==
    /\ [][(ctx.op = "run" /\ ctx'.active > ctx.active) => ~ctx.cancelled]_vars
    /\ [][(ctx.op = "run" /\ ctx.pc # "returned" /\ ctx'.pc = "returned")
            => (ctx.active = 0 \/ ctx.elapsed)]_vars

\* ----------------------------------------------------------------------
\* C35: once the backend has emitted the completion event of the job, the
\* call that submitted it receives the event and goes on to fetch the
\* history, unless a request or the connection failed or the context ended.
C35_CompletionObserved ==
    (mon.op = "job" /\ mon.emitted)
        ~> (mon.observed \/ mon.fault \/ mon.ctxDone)

\* ----------------------------------------------------------------------
\* C36: once WaitForCompletion has returned and closed the connection, its
\* read goroutine exits.
C36_ReaderTerminates ==
    (mon.op = "job" /\ mon.conn = "closed") ~> (mon.rpc = "exited")

\* ----------------------------------------------------------------------
\* C37: a GenerateImage call whose context carries a deadline returns.
C37_DeadlineReturns ==
    (mon.op = "job" /\ mon.deadline) ~> (mon.pc = "returned")

\* The deadline ended a call whose job the backend never finished, while the
\* backend answered the pings.
C37_Witness ==
    /\ mon.op = "job"
    /\ mon.deadline
    /\ mon.pc = "returned"
    /\ mon.via = "ctx"
    /\ mon.job = "running"
    /\ mon.ponged
    /\ ~mon.fault

\* ----------------------------------------------------------------------
\* C38: a step that changes the approved users or the approved groups, or
\* that removes a pending request of a user or of a group, belongs to the
\* handler of an update sent by the configured admin.
StepSender ==
    IF acl'.last # NoUpdate /\ acl'.last.kind # "adminCallback"
    THEN acl'.last.from
    ELSE IF acl.cb # NoCb THEN acl.cb.from
    ELSE NoAdmin

C38_OnlyAdminChanges ==
    [][(/\ acl.op = "serve"
        /\ \/ acl'.approved # acl.approved
           \/ acl'.groups # acl.groups
           \/ \E x \in Actors : acl.pending[x] # "none" /\ acl'.pending[x] = "none"
           \/ \E g \in Groups : g \in acl.gpending /\ g \notin acl'.gpending)
            => (acl.admin # NoAdmin /\ StepSender = acl.admin)]_vars

\* A user who is not the admin pressed a button or sent /revokegroup while
\* there was something to change.
C38_Witness ==
    /\ acl.op = "serve"
    /\ acl.last # NoUpdate
    /\ \/ acl.last.kind = "groupCallback" /\ acl.last.chat \in acl.gpending
       \/ acl.last.kind = "revokeGroup" /\ acl.groups # {}
    /\ acl.last.from # acl.admin
    /\ acl.admin # NoAdmin
    /\ acl.store = "ok"

====
